---- MODULE Spec2Model ----
(***************************************************************************)
(* MirrorDNA-Standard: the vault manager (tools/vault_manager.py) and the  *)
(* lineage visualizer's graph (tools/visualize-lineage.py).                *)
(*                                                                         *)
(* Spec       the vault: one VaultManager instance on one vault directory, *)
(*            the artifact files it reads and its two persistence files.   *)
(* GraphSpec  the visualizer's LineageGraph, built by add_node, add_edge   *)
(*            and parse_sidecar, queried by detect_cycles and              *)
(*            detect_broken_links.                                         *)
(***************************************************************************)
EXTENDS Integers, Sequences, FiniteSets, TLC

VARIABLES
    manifest,           \* VaultManager.manifest (in memory)
    lineage_graph,      \* VaultManager.lineage_graph (in memory)
    manifest_file,      \* vault_manifest.json on disk
    lineage_file,       \* lineage_graph.json on disk
    fs,                 \* the artifact files: path -> Missing, Undecodable or a text
    now,                \* the clock datetime.utcnow() reads
    content_at_reg,     \* history: the text register_artifact last read for each id
    nodes,              \* LineageGraph.nodes keys, in insertion order
    predecessors,       \* LineageNode.predecessors of each node
    successors,         \* LineageNode.successors of each node
    cycles,             \* LineageGraph.cycles
    broken_links,       \* LineageGraph.broken_links
    scanned,            \* history: the node ids whose sidecar was parsed
    call,               \* the trace_lineage call in progress: its caller and locals
    mgr,                \* further VaultManager instances: directory, memory, position
    disk,               \* the persistence files of the directories they are opened on
    doc,                \* the Markdown document of the checksum tools, as its lines
    sidecar,            \* the document's .sidecar.json file
    watch,              \* tools/watch.py: the watched file, the FileWatcher, the loop
    ret                 \* the last call and what it returned or raised

vars == <<manifest, lineage_graph, manifest_file, lineage_file, fs, now,
          content_at_reg, nodes, predecessors, successors, cycles,
          broken_links, scanned, call, mgr, disk, doc, sidecar, watch, ret>>

vaultVars == <<manifest, lineage_graph, manifest_file, lineage_file, fs, now,
               content_at_reg, call, mgr, disk>>

managerVars == <<mgr, disk>>

documentVars == <<doc, sidecar>>

graphVars == <<nodes, predecessors, successors, cycles, broken_links, scanned>>

watchVars == <<watch>>

-----------------------------------------------------------------------------
(* Bounds and input sets *)

\* The number of register_artifact calls explored (each call advances the clock).
MaxRegisterCalls == 4

\* The length of the chain up to which the iterations of a trace_lineage loop
\* are explored.
MaxChainLen == 4

\* The number of lines of a metadata block up to which documents are explored.
MaxBlockLen == 3

\* The number of hex digits of a digest in the checksum engine's model (64 in
\* the code).
HexLen == 2

\* The length up to which the texts given to the canonicalization are explored.
MaxTextLen == 4

\* The number of characters after the scheme prefix up to which identifier
\* strings are explored.
MaxIdLen == 6

\* The number of lineage items up to which the lists given to the lineage
\* validator are explored.
MaxItems == 2
MaxChanges == 3

VaultIds == {"A", "B", "C"}

Paths == {"f1", "f2"}

None == "None"

LF == "LF"
CR == "CR"
SP == "SP"

\* File texts: "a", "a" with one appended line feed, "a" with one appended "b".
Texts == { <<"a">>, <<"a", LF>>, <<"a", "b">> }

Missing == <<"missing">>
Undecodable == <<"undecodable">>

\* metadata arguments: None, or a dict given as a set of <<key, value>> pairs
NoMetadata == [given |-> FALSE, dict |-> {}]

MetadataArgs == { NoMetadata, [given |-> TRUE, dict |-> {<<"k", "v">>}] }

\* A persistence file is the set of its contents: empty when the file does not
\* exist, else the one JSON value written to it.
Absent == {}

Written(json) == {json}

JsonOf(file) == CHOOSE json \in file : TRUE

EmptyMap == [x \in {} |-> None]

Put(f, k, v) == [x \in (DOMAIN f) \cup {k} |-> IF x = k THEN v ELSE f[x]]

-----------------------------------------------------------------------------
(* Canonical-text hashing: VaultManager._canonicalize_content, compute_checksum *)

\* unicodedata.normalize('NFC', .) on the model's alphabet: "e" followed by the
\* combining accent "^" composes to the single character "E".
RECURSIVE NormalizeNFC(_)
NormalizeNFC(s) ==
    IF Len(s) = 0 THEN <<>>
    ELSE IF Len(s) >= 2 /\ s[1] = "e" /\ s[2] = "^"
         THEN <<"E">> \o NormalizeNFC(SubSeq(s, 3, Len(s)))
         ELSE <<s[1]>> \o NormalizeNFC(Tail(s))

\* content.replace('\r\n', '\n')
RECURSIVE ReplaceCRLF(_)
ReplaceCRLF(s) ==
    IF Len(s) = 0 THEN <<>>
    ELSE IF Len(s) >= 2 /\ s[1] = CR /\ s[2] = LF
         THEN <<LF>> \o ReplaceCRLF(SubSeq(s, 3, Len(s)))
         ELSE <<s[1]>> \o ReplaceCRLF(Tail(s))

\* .replace('\r', '\n')
ReplaceCR(s) == [i \in 1..Len(s) |-> IF s[i] = CR THEN LF ELSE s[i]]

\* content.split('\n'): the lines, as a non-empty sequence of sequences
RECURSIVE SplitLines(_, _)
SplitLines(s, line) ==
    IF Len(s) = 0 THEN <<line>>
    ELSE IF s[1] = LF THEN <<line>> \o SplitLines(Tail(s), <<>>)
         ELSE SplitLines(Tail(s), Append(line, s[1]))

Whitespace == {SP, LF, CR}

\* line.rstrip()
RECURSIVE RStrip(_)
RStrip(line) ==
    IF Len(line) > 0 /\ line[Len(line)] \in Whitespace
    THEN RStrip(SubSeq(line, 1, Len(line) - 1))
    ELSE line

\* '\n'.join(lines)
RECURSIVE JoinLines(_)
JoinLines(lines) ==
    IF Len(lines) = 0 THEN <<>>
    ELSE IF Len(lines) = 1 THEN lines[1]
         ELSE lines[1] \o <<LF>> \o JoinLines(Tail(lines))

\* content.rstrip('\n')
RECURSIVE RStripLF(_)
RStripLF(s) ==
    IF Len(s) > 0 /\ s[Len(s)] = LF
    THEN RStripLF(SubSeq(s, 1, Len(s) - 1))
    ELSE s

StripEachLine(lines) == [i \in 1..Len(lines) |-> RStrip(lines[i])]

\* (a canonicalization that would trim the lines before converting the line
\* endings)
CanonicalizeContentTrimFirst(content) ==
    LET nfc     == NormalizeNFC(content)
        lines   == StripEachLine(SplitLines(nfc, <<>>))
        lf      == ReplaceCR(ReplaceCRLF(JoinLines(lines)))
    IN  RStripLF(lf) \o <<LF>>

CanonicalizeContent(content) ==
    LET nfc     == NormalizeNFC(content)
        lf      == ReplaceCR(ReplaceCRLF(nfc))
        lines   == StripEachLine(SplitLines(lf, <<>>))
        joined  == JoinLines(lines)
    IN  RStripLF(joined) \o <<LF>>

\* hashlib.sha256(...).hexdigest(), taken as injective: the digest of a text is
\* the text itself under a tag.
Sha256Hex(text) == <<"sha256", text>>

ComputeChecksumNotCanonical(content) == Sha256Hex(content)

ComputeChecksum(content) == Sha256Hex(CanonicalizeContent(content))

\* file_path.read_text(encoding='utf-8') raises when the file is missing or
\* is not UTF-8.
ReadRaises(file_path) == fs[file_path] \in {Missing, Undecodable}

ComputeFileChecksum(file_path) == ComputeChecksum(fs[file_path])

\* Path.exists()
Exists(file_path) == fs[file_path] # Missing

-----------------------------------------------------------------------------
(* The vault's persistence: json.dump / json.load of the manifest and lineage *)

\* JSON values: null, a string, an object (a function from keys).
JNull == <<"null">>

JStr(x) == <<"str", x>>

\* An Optional[str] field as JSON
JOpt(v) == IF v = None THEN JNull ELSE JStr(v)

\* ... and read back
FromJOpt(j) == IF j = JNull THEN None ELSE j[2]

ToJsonMetadata(metadata) == { <<kv[1], JStr(kv[2])>> : kv \in metadata }

FromJsonMetadata(j) == { <<kv[1], kv[2][2]>> : kv \in j }

\* the manifest a VaultManager starts from when no manifest file exists
DefaultManifest(t) ==
    [ vault_version  |-> "1.0",
      created_at     |-> t,
      artifacts      |-> EmptyMap,
      checksums      |-> EmptyMap,
      lineage_chains |-> EmptyMap ]

\* _save_manifest: json.dump(self.manifest, ...)
DumpManifest(m) ==
    [ vault_version  |-> JStr(m.vault_version),
      created_at     |-> JStr(m.created_at),
      artifacts      |-> [ k \in DOMAIN m.artifacts |->
                             [ file_path     |-> JStr(m.artifacts[k].file_path),
                               registered_at |-> JStr(m.artifacts[k].registered_at),
                               metadata      |-> ToJsonMetadata(m.artifacts[k].metadata) ] ],
      checksums      |-> [ k \in DOMAIN m.checksums |-> JStr(m.checksums[k]) ],
      lineage_chains |-> m.lineage_chains ]

\* _load_manifest: json.load of the file, or the default manifest
LoadManifest(manifest_path, t) ==
    IF manifest_path = Absent THEN DefaultManifest(t)
    ELSE LET file == JsonOf(manifest_path) IN
         [ vault_version  |-> file.vault_version[2],
           created_at     |-> file.created_at[2],
           artifacts      |-> [ k \in DOMAIN file.artifacts |->
                                  [ file_path     |-> file.artifacts[k].file_path[2],
                                    registered_at |-> file.artifacts[k].registered_at[2],
                                    metadata      |-> FromJsonMetadata(file.artifacts[k].metadata) ] ],
           checksums      |-> [ k \in DOMAIN file.checksums |-> file.checksums[k][2] ],
           lineage_chains |-> file.lineage_chains ]

\* LineageChain(vault_id=..., predecessor=...)
LineageChain(vault_id, predecessor) ==
    [ vault_id     |-> vault_id,
      predecessor  |-> predecessor,
      successor    |-> None,
      branch_point |-> None,
      merge_point  |-> None ]

\* _save_lineage: {k: asdict(v)} as JSON
DumpLineageWithoutSuccessor(g) ==
    [ k \in DOMAIN g |->
        [ vault_id     |-> JStr(g[k].vault_id),
          predecessor  |-> JOpt(g[k].predecessor),
          successor    |-> JNull,
          branch_point |-> JOpt(g[k].branch_point),
          merge_point  |-> JOpt(g[k].merge_point) ] ]

DumpLineage(g) ==
    [ k \in DOMAIN g |->
        [ vault_id     |-> JStr(g[k].vault_id),
          predecessor  |-> JOpt(g[k].predecessor),
          successor    |-> JOpt(g[k].successor),
          branch_point |-> JOpt(g[k].branch_point),
          merge_point  |-> JOpt(g[k].merge_point) ] ]

\* _load_lineage: {k: LineageChain(**v)}, or the empty graph
LoadLineage(lineage_path) ==
    IF lineage_path = Absent THEN EmptyMap
    ELSE LET file == JsonOf(lineage_path) IN
         [ k \in DOMAIN file |->
             [ vault_id     |-> file[k].vault_id[2],
               predecessor  |-> FromJOpt(file[k].predecessor),
               successor    |-> FromJOpt(file[k].successor),
               branch_point |-> FromJOpt(file[k].branch_point),
               merge_point  |-> FromJOpt(file[k].merge_point) ] ]

-----------------------------------------------------------------------------
(* register_artifact *)

\* metadata or {}
MetadataOrEmpty(metadata) == IF metadata.given THEN metadata.dict ELSE {}

\* lines 287-293: the manifest entry and the checksum of vault_id
ManifestAfterRegister(m, vault_id, file_path, metadata, checksum, t) ==
    [ m EXCEPT
        !.artifacts = Put(@, vault_id,
                          [ file_path     |-> file_path,
                            registered_at |-> t,
                            metadata      |-> MetadataOrEmpty(metadata) ]),
        !.checksums = Put(@, vault_id, checksum) ]

\* `if predecessor`: None and the empty string are false
Truthy(x) == x \notin {None, ""}

\* lines 296-304: the lineage entry of vault_id, and the predecessor's successor
LineageAfterRegisterNoSuccessor(g, vault_id, predecessor) ==
    Put(g, vault_id, LineageChain(vault_id, predecessor))

LineageAfterRegisterWrongDirection(g, vault_id, predecessor) ==
    LET g1 == Put(g, vault_id, LineageChain(vault_id, predecessor))
    IN  IF Truthy(predecessor) /\ predecessor \in DOMAIN g1
        THEN [ g1 EXCEPT ![vault_id].successor = predecessor ]
        ELSE g1

LineageAfterRegister(g, vault_id, predecessor) ==
    LET g1 == Put(g, vault_id, LineageChain(vault_id, predecessor))
    IN  IF Truthy(predecessor) /\ predecessor \in DOMAIN g1
        THEN [ g1 EXCEPT ![predecessor].successor = vault_id ]
        ELSE g1

\* How the two file writes of a call end: both succeed, or open() raises in
\* _save_manifest, or it raises in _save_lineage.
WriteOutcomes == {"ok", "save_manifest_raises", "save_lineage_raises"}

Returned(op, vault_id, arg, result) ==
    [ op |-> op, id |-> vault_id, arg |-> arg, raised |-> FALSE, value |-> result ]

Raised(op, vault_id, arg, where) ==
    [ op |-> op, id |-> vault_id, arg |-> arg, raised |-> TRUE, value |-> where ]

Register(vault_id, file_path, predecessor, metadata, outcome) ==
    /\ now <= MaxRegisterCalls
    /\ call.op = "none"
    /\ UNCHANGED <<fs, graphVars, watchVars, documentVars, managerVars, call>>
    /\ now' = now + 1
    /\ IF ReadRaises(file_path)
       THEN \* compute_file_checksum raises before anything is assigned
            /\ outcome = "ok"
            /\ ret' = Raised("register", vault_id, predecessor, "read_text")
            /\ UNCHANGED <<manifest, lineage_graph, manifest_file, lineage_file,
                           content_at_reg>>
       ELSE LET checksum == ComputeFileChecksum(file_path)
                m == ManifestAfterRegister(manifest, vault_id, file_path,
                                           metadata, checksum, now)
                g == LineageAfterRegister(lineage_graph, vault_id, predecessor)
            IN  /\ manifest' = m
                /\ lineage_graph' = g
                /\ content_at_reg' = Put(content_at_reg, vault_id, fs[file_path])
                /\ manifest_file' =
                       IF outcome = "save_manifest_raises" THEN manifest_file
                       ELSE Written(DumpManifest(m))
                /\ lineage_file' =
                       IF outcome = "ok" THEN Written(DumpLineage(g)) ELSE lineage_file
                /\ ret' = IF outcome = "ok"
                          THEN Returned("register", vault_id, predecessor, checksum)
                          ELSE Raised("register", vault_id, predecessor, outcome)

-----------------------------------------------------------------------------
(* verify_artifact *)

VerifyArtifact(vault_id) ==
    IF vault_id \notin DOMAIN manifest.artifacts
    THEN [ raised |-> FALSE, valid |-> FALSE,
           issues |-> << <<"not registered", vault_id>> >> ]
    ELSE LET file_path == manifest.artifacts[vault_id].file_path
         IN  IF ~Exists(file_path)
             THEN [ raised |-> FALSE, valid |-> FALSE,
                    issues |-> << <<"file not found", file_path>> >> ]
             ELSE IF vault_id \notin DOMAIN manifest.checksums
             THEN [ raised |-> FALSE, valid |-> FALSE,
                    issues |-> << <<"no checksum recorded">> >> ]
             ELSE IF ReadRaises(file_path)
             THEN [ raised |-> TRUE, valid |-> FALSE, issues |-> <<>> ]
             ELSE LET expected == manifest.checksums[vault_id]
                      actual   == ComputeFileChecksum(file_path)
                  IN  IF actual # expected
                      THEN [ raised |-> FALSE, valid |-> FALSE,
                             issues |-> << <<"checksum mismatch", expected, actual>> >> ]
                      ELSE [ raised |-> FALSE, valid |-> TRUE, issues |-> <<>> ]

\* (a verify that would record the digest it computed)
VerifyRecordingChecksum(vault_id) ==
    /\ LET r == VerifyArtifact(vault_id)
       IN  /\ ret' = [ op |-> "verify", id |-> vault_id, arg |-> None,
                       raised |-> r.raised, value |-> <<r.valid, r.issues>> ]
           /\ manifest' =
                 IF vault_id \in DOMAIN manifest.artifacts
                    /\ ~ReadRaises(manifest.artifacts[vault_id].file_path)
                 THEN [ manifest EXCEPT !.checksums[vault_id] =
                          ComputeFileChecksum(manifest.artifacts[vault_id].file_path) ]
                 ELSE manifest
    /\ UNCHANGED <<lineage_graph, manifest_file, lineage_file, fs, now,
                   content_at_reg, call, graphVars, watchVars, documentVars, managerVars>>

Verify(vault_id) ==
    /\ LET r == VerifyArtifact(vault_id)
       IN  ret' = [ op |-> "verify", id |-> vault_id, arg |-> None,
                    raised |-> r.raised, value |-> <<r.valid, r.issues>> ]
    /\ UNCHANGED <<vaultVars, graphVars, watchVars, documentVars>>

-----------------------------------------------------------------------------
(* trace_lineage *)

Elements(seq) == { seq[i] : i \in 1..Len(seq) }

\* (a loop that would stop before a link naming an unregistered id)
RECURSIVE TraceLoopStopsAtRegistered(_, _, _, _)
TraceLoopStopsAtRegistered(g, current, chain, direction) ==
    LET link == IF direction = "backward" THEN g[current].predecessor
                ELSE g[current].successor
    IN  IF link = None \/ link \notin DOMAIN g
        THEN [ diverges |-> FALSE, chain |-> chain ]
        ELSE IF link \in Elements(chain)
             THEN [ diverges |-> TRUE, chain |-> Append(chain, link) ]
        ELSE TraceLoopStopsAtRegistered(g, link, Append(chain, link), direction)

\* The while loop from `current` with `chain` walked so far. The loop is a
\* function of `current` alone, so reaching an id already in the chain means it
\* never ends: diverges.
RECURSIVE TraceLoop(_, _, _, _)
TraceLoop(g, current, chain, direction) ==
    LET link == IF direction = "backward" THEN g[current].predecessor
                ELSE g[current].successor
    IN  IF link = None THEN [ diverges |-> FALSE, chain |-> chain ]
        ELSE IF link \notin DOMAIN g
             THEN [ diverges |-> FALSE, chain |-> Append(chain, link) ]
        ELSE IF link \in Elements(chain)
             THEN [ diverges |-> TRUE, chain |-> Append(chain, link) ]
        ELSE TraceLoop(g, link, Append(chain, link), direction)

TraceLineage(g, vault_id, direction) ==
    IF vault_id \notin DOMAIN g THEN [ diverges |-> FALSE, chain |-> <<>> ]
    ELSE TraceLoop(g, vault_id, <<vault_id>>, direction)

Directions == {"backward", "forward"}

Trace(vault_id, direction) ==
    /\ LET r == TraceLineage(lineage_graph, vault_id, direction)
       IN  /\ ~r.diverges
           /\ ret' = Returned("trace", vault_id, direction, r.chain)
    /\ UNCHANGED <<vaultVars, graphVars, watchVars, documentVars>>

-----------------------------------------------------------------------------
(* trace_lineage and validate_lineage_chain, one loop iteration at a time *)

\* no trace_lineage call is in progress
NoCall == [ op |-> "none", id |-> None, direction |-> None, current |-> None,
            chain |-> <<>> ]

\* validate_lineage_chain, lines 417-433: the issues of backward_chain
RECURSIVE ChainIssuesFirstOnly(_, _, _)
ChainIssuesFirstOnly(g, backward_chain, i) ==
    IF i > Len(backward_chain) THEN <<>>
    ELSE LET vid == backward_chain[i]
         IN  IF vid \notin DOMAIN g
             THEN << <<"missing lineage entry", vid>> >>
             ELSE IF g[vid].successor # backward_chain[i - 1]
             THEN << <<"lineage break", vid, backward_chain[i - 1],
                       g[vid].successor>> >>
             ELSE ChainIssuesFirstOnly(g, backward_chain, i + 1)

RECURSIVE ChainIssues(_, _, _)
ChainIssues(g, backward_chain, i) ==
    IF i > Len(backward_chain) THEN <<>>
    ELSE LET vid == backward_chain[i]
             issue == IF vid \notin DOMAIN g
                      THEN << <<"missing lineage entry", vid>> >>
                      ELSE IF g[vid].successor # backward_chain[i - 1]
                      THEN << <<"lineage break", vid, backward_chain[i - 1],
                                g[vid].successor>> >>
                      ELSE <<>>
         IN  issue \o ChainIssues(g, backward_chain, i + 1)

\* what validate_lineage_chain returns once the backward trace has returned
ValidateResult(g, backward_chain) ==
    LET issues == ChainIssues(g, backward_chain, 2)
    IN  << Len(issues) = 0, issues >>

\* the calls that run the loop of trace_lineage: <<op, direction>>
Calls == { <<"trace", "backward">>, <<"trace", "forward">>, <<"validate", "backward">> }

\* trace_lineage(vault_id, direction) is called (op "trace"), or
\* validate_lineage_chain(vault_id) is called and calls trace_lineage(vault_id,
\* 'backward') (op "validate"). For an id not in the graph both return at once.
Begin(op, vault_id, direction) ==
    /\ call.op = "none"
    /\ op = "validate" => direction = "backward"
    /\ IF vault_id \notin DOMAIN lineage_graph
       THEN /\ ret' = IF op = "trace"
                      THEN Returned("trace", vault_id, direction, <<>>)
                      ELSE Returned("validate", vault_id, None,
                                    << FALSE, << <<"not in lineage graph", vault_id>> >> >>)
            /\ UNCHANGED call
       ELSE /\ call' = [ op |-> op, id |-> vault_id, direction |-> direction,
                         current |-> vault_id, chain |-> <<vault_id>> ]
            /\ ret' = [ op |-> "call", id |-> vault_id, arg |-> direction,
                        raised |-> FALSE, value |-> op ]
    /\ UNCHANGED <<manifest, lineage_graph, manifest_file, lineage_file, fs, now,
                   content_at_reg, graphVars, watchVars, documentVars, managerVars>>

\* trace_lineage returns chain to its caller
Return(chain) ==
    /\ call' = NoCall
    /\ ret' = IF call.op = "trace"
              THEN Returned("trace", call.id, call.direction, chain)
              ELSE Returned("validate", call.id, None,
                            ValidateResult(lineage_graph, chain))

\* (an iteration that would break when the link is already in the chain)
IterateWithCycleGuard ==
    /\ call.op # "none"
    /\ Len(call.chain) <= MaxChainLen
    /\ LET lineage == lineage_graph[call.current]
           link == IF call.direction = "backward" THEN lineage.predecessor
                   ELSE lineage.successor
       IN  IF link = None \/ link \in Elements(call.chain) THEN Return(call.chain)
           ELSE IF link \notin DOMAIN lineage_graph
                THEN Return(Append(call.chain, link))
           ELSE /\ call' = [ call EXCEPT !.current = link,
                                         !.chain = Append(call.chain, link) ]
                /\ UNCHANGED ret
    /\ UNCHANGED <<manifest, lineage_graph, manifest_file, lineage_file, fs, now,
                   content_at_reg, graphVars, watchVars, documentVars, managerVars>>

\* (an iteration that would append the link and stay at the current id)
IterateWithoutAdvance ==
    /\ call.op # "none"
    /\ Len(call.chain) <= MaxChainLen
    /\ LET lineage == lineage_graph[call.current]
           link == IF call.direction = "backward" THEN lineage.predecessor
                   ELSE lineage.successor
       IN  IF link = None THEN Return(call.chain)
           ELSE IF link \notin DOMAIN lineage_graph
                THEN Return(Append(call.chain, link))
           ELSE /\ call' = [ call EXCEPT !.chain = Append(call.chain, link) ]
                /\ UNCHANGED ret
    /\ UNCHANGED <<manifest, lineage_graph, manifest_file, lineage_file, fs, now,
                   content_at_reg, graphVars, watchVars, documentVars, managerVars>>

\* One iteration of the while loop, lines 376-383 (backward) and 386-393
\* (forward): break on a missing link, else append it and move to it, and
\* break if it is not in the graph.
Iterate ==
    /\ call.op # "none"
    /\ Len(call.chain) <= MaxChainLen
    /\ LET lineage == lineage_graph[call.current]
           link == IF call.direction = "backward" THEN lineage.predecessor
                   ELSE lineage.successor
       IN  IF link = None THEN Return(call.chain)
           ELSE IF link \notin DOMAIN lineage_graph
                THEN Return(Append(call.chain, link))
           ELSE /\ call' = [ call EXCEPT !.current = link,
                                         !.chain = Append(call.chain, link) ]
                /\ UNCHANGED ret
    /\ UNCHANGED <<manifest, lineage_graph, manifest_file, lineage_file, fs, now,
                   content_at_reg, graphVars, watchVars, documentVars, managerVars>>

-----------------------------------------------------------------------------
(* generate_lineage_report, export_vault_state, compute_vault_state_hash *)

\* The report. root_nodes, leaf_nodes and fork_points are lists in the order of
\* the lineage_graph dict; the model keeps no dict order and gives each as the
\* set of its elements.
LineageReport(g) ==
    LET root_nodes == { k \in DOMAIN g : g[k].predecessor = None }
    IN  [ total_artifacts |-> Cardinality(DOMAIN g),
          root_nodes      |-> root_nodes,
          leaf_nodes      |-> { k \in DOMAIN g : g[k].successor = None },
          fork_points     |-> { k \in DOMAIN g : g[k].branch_point # None },
          chains          |-> [ root \in root_nodes |->
                                  TraceLineage(g, root, "forward").chain ] ]

\* generate_lineage_report returns when every forward trace from a root does
GenerateLineageReport ==
    /\ call.op = "none"
    /\ \A k \in DOMAIN lineage_graph :
          lineage_graph[k].predecessor = None
          => ~TraceLineage(lineage_graph, k, "forward").diverges
    /\ ret' = Returned("report", None, None, LineageReport(lineage_graph))
    /\ UNCHANGED <<vaultVars, graphVars, watchVars, documentVars>>

\* json.dumps(state, sort_keys=True) of the artifacts and checksums items,
\* sorted by id: one value per pair of maps, whatever order the ids were
\* inserted in.
StateJson(m) ==
    << "state_json", DumpManifest(m).artifacts, DumpManifest(m).checksums >>

ComputeVaultStateHash(m) == Sha256Hex(StateJson(m))

StateHash ==
    /\ call.op = "none"
    /\ ret' = Returned("state_hash", None, None, ComputeVaultStateHash(manifest))
    /\ UNCHANGED <<vaultVars, graphVars, watchVars, documentVars>>

ExportVaultState ==
    /\ call.op = "none"
    /\ ret' = Returned("export_state", None, None,
                       [ manifest       |-> manifest,
                         lineage_graph  |-> DumpLineage(lineage_graph),
                         exported_at    |-> now,
                         vault_checksum |-> ComputeVaultStateHash(manifest) ])
    /\ UNCHANGED <<vaultVars, graphVars, watchVars, documentVars>>

-----------------------------------------------------------------------------
(* Several VaultManager instances, each a process of its own (one command   *)
(* line invocation constructs one), on one or two vault directories.        *)
(* register_artifact is taken statement by statement: the assignments to    *)
(* the instance's memory, then _save_manifest, then _save_lineage.          *)

Managers == {"m1", "m2"}

Dirs == {"d1", "d2"}

EmptyDir == [ manifest_file |-> Absent, lineage_file |-> Absent ]

\* an instance not yet constructed
Unopened ==
    [ dir |-> None, manifest |-> DefaultManifest(0), lineage_graph |-> EmptyMap,
      pc |-> "unopened", vault_id |-> None ]

\* VaultManager(d): __init__ loads the manifest and the lineage graph of d
Open(i, d) ==
    /\ mgr[i].pc = "unopened"
    /\ mgr' = [ mgr EXCEPT ![i] =
                  [ dir |-> d,
                    manifest |-> LoadManifest(disk[d].manifest_file, now),
                    lineage_graph |-> LoadLineage(disk[d].lineage_file),
                    pc |-> "idle", vault_id |-> None ] ]
    /\ ret' = Returned("init", None, i, None)
    /\ UNCHANGED <<manifest, lineage_graph, manifest_file, lineage_file, fs, now,
                   content_at_reg, call, disk, graphVars, watchVars, documentVars>>

\* register_artifact lines 284-304: the checksum, the manifest entry and the
\* lineage entry, in the memory of instance i
AssignEntries(i, vault_id, file_path, predecessor, metadata) ==
    /\ mgr[i].pc = "idle"
    /\ now <= MaxRegisterCalls
    /\ ~ReadRaises(file_path)
    /\ now' = now + 1
    /\ mgr' = [ mgr EXCEPT ![i] =
                  [ @ EXCEPT
                      !.manifest = ManifestAfterRegister(@, vault_id, file_path,
                                       metadata, ComputeFileChecksum(file_path), now),
                      !.lineage_graph = LineageAfterRegister(@, vault_id, predecessor),
                      !.pc = "save_manifest",
                      !.vault_id = vault_id ] ]
    /\ ret' = [ op |-> "call", id |-> vault_id, arg |-> i, raised |-> FALSE,
                value |-> "register" ]
    /\ UNCHANGED <<manifest, lineage_graph, manifest_file, lineage_file, fs,
                   content_at_reg, call, disk, graphVars, watchVars, documentVars>>

\* (a save that would first merge in the entries the file holds by now)
ManifestToSaveMergedWithFile(i) ==
    LET onDisk == LoadManifest(disk[mgr[i].dir].manifest_file, now)
        mine   == mgr[i].manifest
    IN  [ mine EXCEPT
            !.artifacts = [ k \in DOMAIN onDisk.artifacts \cup DOMAIN mine.artifacts |->
                              IF k \in DOMAIN mine.artifacts THEN mine.artifacts[k]
                              ELSE onDisk.artifacts[k] ],
            !.checksums = [ k \in DOMAIN onDisk.checksums \cup DOMAIN mine.checksums |->
                              IF k \in DOMAIN mine.checksums THEN mine.checksums[k]
                              ELSE onDisk.checksums[k] ] ]

\* _save_manifest dumps self.manifest, whatever the file holds
ManifestToSave(i) == mgr[i].manifest

\* line 307: self._save_manifest()
SaveManifest(i) ==
    /\ mgr[i].pc = "save_manifest"
    /\ disk' = [ disk EXCEPT ![mgr[i].dir].manifest_file =
                   Written(DumpManifest(ManifestToSave(i))) ]
    /\ mgr' = [ mgr EXCEPT ![i].pc = "save_lineage" ]
    /\ UNCHANGED <<manifest, lineage_graph, manifest_file, lineage_file, fs, now,
                   content_at_reg, call, ret, graphVars, watchVars, documentVars>>

\* lines 308-310: self._save_lineage(); return checksum
SaveLineage(i) ==
    /\ mgr[i].pc = "save_lineage"
    /\ disk' = [ disk EXCEPT ![mgr[i].dir].lineage_file =
                   Written(DumpLineage(mgr[i].lineage_graph)) ]
    /\ mgr' = [ mgr EXCEPT ![i].pc = "idle", ![i].vault_id = None ]
    /\ ret' = Returned("register", mgr[i].vault_id, i,
                       mgr[i].manifest.checksums[mgr[i].vault_id])
    /\ UNCHANGED <<manifest, lineage_graph, manifest_file, lineage_file, fs, now,
                   content_at_reg, call, graphVars, watchVars, documentVars>>

\* compute_vault_state_hash() of instance i
StateHashOf(i) ==
    /\ mgr[i].pc = "idle"
    /\ ret' = Returned("state_hash", None, i, ComputeVaultStateHash(mgr[i].manifest))
    /\ UNCHANGED <<vaultVars, graphVars, watchVars, documentVars>>

-----------------------------------------------------------------------------
(* The environment of the vault *)

FileStates == Texts \cup {Missing, Undecodable}

\* An artifact file is edited, replaced or deleted outside the vault manager.
WriteFile(file_path, content) ==
    /\ fs[file_path] # content
    /\ fs' = [fs EXCEPT ![file_path] = content]
    /\ ret' = Returned("write_file", None, file_path, None)
    /\ UNCHANGED <<manifest, lineage_graph, manifest_file, lineage_file, now,
                   content_at_reg, call, graphVars, watchVars, documentVars, managerVars>>

\* VaultManager(vault_path) on the same directory: __init__ loads both files.
Reopen ==
    /\ manifest' = LoadManifest(manifest_file, now)
    /\ lineage_graph' = LoadLineage(lineage_file)
    /\ ret' = Returned("init", None, None, None)
    /\ UNCHANGED <<manifest_file, lineage_file, fs, now, content_at_reg, call,
                   graphVars, watchVars, documentVars, managerVars>>

-----------------------------------------------------------------------------
(* The visualizer's LineageGraph *)

GraphIds == {"A", "B", "C"}

GraphInit ==
    /\ nodes = <<>>
    /\ predecessors = EmptyMap
    /\ successors = EmptyMap
    /\ cycles = <<>>
    /\ broken_links = <<>>
    /\ scanned = {}

\* The graph as one value: [nodes, predecessors, successors]
Graph == [ nodes |-> nodes, predecessors |-> predecessors, successors |-> successors ]

\* add_node: a new LineageNode for an id not yet in self.nodes
WithNode(g, node_id) ==
    IF node_id \in Elements(g.nodes) THEN g
    ELSE [ nodes        |-> Append(g.nodes, node_id),
           predecessors |-> Put(g.predecessors, node_id, {}),
           successors   |-> Put(g.successors, node_id, {}) ]

\* (an add_edge that would record the edge at the predecessor only)
WithEdgeAtPredecessorOnly(g, predecessor_id, successor_id) ==
    LET g2 == WithNode(WithNode(g, predecessor_id), successor_id)
    IN  [ g2 EXCEPT !.successors[predecessor_id] = @ \cup {successor_id} ]

\* add_edge
WithEdge(g, predecessor_id, successor_id) ==
    LET g2 == WithNode(WithNode(g, predecessor_id), successor_id)
    IN  [ g2 EXCEPT !.successors[predecessor_id] = @ \cup {successor_id},
                    !.predecessors[successor_id] = @ \cup {predecessor_id} ]

\* parse_sidecar, lines 173-183: one add_edge per listed predecessor, then one
\* per listed successor
RECURSIVE WithPredecessors(_, _, _)
WithPredecessors(g, node_id, preds) ==
    IF Len(preds) = 0 THEN g
    ELSE WithPredecessors(WithEdge(g, Head(preds), node_id), node_id, Tail(preds))

RECURSIVE WithSuccessors(_, _, _)
WithSuccessors(g, node_id, succs) ==
    IF Len(succs) = 0 THEN g
    ELSE WithSuccessors(WithEdge(g, node_id, Head(succs)), node_id, Tail(succs))

WithSidecar(g, node_id, preds, succs) ==
    WithSuccessors(WithPredecessors(WithNode(g, node_id), node_id, preds),
                   node_id, succs)

SetGraph(g) ==
    /\ nodes' = g.nodes
    /\ predecessors' = g.predecessors
    /\ successors' = g.successors

AddNode(node_id) ==
    /\ SetGraph(WithNode(Graph, node_id))
    /\ ret' = Returned("add_node", None, None, None)
    /\ UNCHANGED <<vaultVars, documentVars, watchVars, cycles, broken_links, scanned>>

AddEdge(predecessor_id, successor_id) ==
    /\ SetGraph(WithEdge(Graph, predecessor_id, successor_id))
    /\ ret' = Returned("add_edge", None, None, None)
    /\ UNCHANGED <<vaultVars, documentVars, watchVars, cycles, broken_links, scanned>>

\* A sidecar file with vault_id node_id and the lineage lists preds and succs
ParseSidecar(node_id, preds, succs) ==
    /\ SetGraph(WithSidecar(Graph, node_id, preds, succs))
    /\ scanned' = scanned \cup {node_id}
    /\ ret' = Returned("parse_sidecar", None, None, None)
    /\ UNCHANGED <<vaultVars, documentVars, watchVars, cycles, broken_links>>

-----------------------------------------------------------------------------
(* detect_cycles *)

\* The orders a Python set may be iterated in
Perms(S) ==
    { seq \in [1..Cardinality(S) -> S] :
        \A i, j \in 1..Cardinality(S) : i # j => seq[i] # seq[j] }

\* One iteration order for the successors set of every node in D
RECURSIVE IterationOrders(_)
IterationOrders(D) ==
    IF D = {} THEN { EmptyMap }
    ELSE LET n == CHOOSE n \in D : TRUE
         IN  { Put(f, n, p) : f \in IterationOrders(D \ {n}), p \in Perms(successors[n]) }

IndexOf(seq, x) == CHOOSE i \in 1..Len(seq) : seq[i] = x /\ \A j \in 1..(i - 1) : seq[j] # x

\* lines 105-106: the cycle a back edge to successor_id closes
CycleFromUnclosed(path, successor_id) ==
    SubSeq(path, IndexOf(path, successor_id), Len(path))

CycleFrom(path, successor_id) ==
    SubSeq(path, IndexOf(path, successor_id), Len(path)) \o <<successor_id>>

\* dfs(node_id, path), lines 91-111. st holds the closure's visited, rec_stack
\* and cycles, `found` is the value dfs returns, and `raised` tells that
\* path.index raised ValueError. DfsLoop is the for loop over the successors
\* still to visit, todo.
RECURSIVE Dfs(_, _, _, _), DfsLoop(_, _, _, _, _)
Dfs(node_id, path, st, order) ==
    DfsLoop(node_id, Append(path, node_id), order[node_id],
            [ st EXCEPT !.visited = @ \cup {node_id},
                        !.rec_stack = @ \cup {node_id} ],
            order)

DfsLoop(node_id, path, todo, st, order) ==
    IF Len(todo) = 0
    THEN [ st EXCEPT !.rec_stack = @ \ {node_id}, !.found = FALSE ]
    ELSE LET successor_id == Head(todo)
         IN  IF successor_id \notin st.visited
             THEN LET r == Dfs(successor_id, path, st, order)
                  IN  IF r.raised \/ r.found THEN r
                      ELSE DfsLoop(node_id, path, Tail(todo), r, order)
             ELSE IF successor_id \in st.rec_stack
             THEN IF successor_id \in Elements(path)
                  THEN [ st EXCEPT
                           !.cycles = Append(@, CycleFrom(path, successor_id)),
                           !.found = TRUE ]
                  ELSE [ st EXCEPT !.raised = TRUE ]
             ELSE DfsLoop(node_id, path, Tail(todo), st, order)

\* lines 113-115: dfs(node_id, []) from every node not yet visited
RECURSIVE DfsFromEach(_, _, _)
DfsFromEach(todo, st, order) ==
    IF Len(todo) = 0 \/ st.raised THEN st
    ELSE IF Head(todo) \in st.visited THEN DfsFromEach(Tail(todo), st, order)
         ELSE DfsFromEach(Tail(todo), Dfs(Head(todo), <<>>, st, order), order)

DetectCyclesResult(order) ==
    DfsFromEach(nodes,
                [ visited |-> {}, rec_stack |-> {}, cycles |-> <<>>,
                  found |-> FALSE, raised |-> FALSE ],
                order)

DetectCycles ==
    /\ \E order \in IterationOrders(Elements(nodes)) :
          LET r == DetectCyclesResult(order)
          IN  IF r.raised
              THEN /\ ret' = Raised("detect_cycles", None, None, "ValueError")
                   /\ UNCHANGED cycles
              ELSE /\ ret' = Returned("detect_cycles", None, None, r.cycles)
                   /\ cycles' = r.cycles
    /\ UNCHANGED <<vaultVars, documentVars, watchVars, nodes, predecessors, successors, broken_links, scanned>>

-----------------------------------------------------------------------------
(* detect_broken_links *)

\* the pairs lines 124-133 append
BrokenPairs ==
    ( { pr \in GraphIds \X GraphIds :
          /\ pr[2] \in Elements(nodes)
          /\ pr[1] \in predecessors[pr[2]]
          /\ pr[1] \notin Elements(nodes) } )
    \cup
    ( { pr \in GraphIds \X GraphIds :
          /\ pr[1] \in Elements(nodes)
          /\ pr[2] \in successors[pr[1]]
          /\ pr[2] \notin Elements(nodes) } )

DetectBrokenLinks ==
    /\ \E broken \in Perms(BrokenPairs) :
          /\ broken_links' = broken
          /\ ret' = Returned("detect_broken_links", None, None, broken)
    /\ UNCHANGED <<vaultVars, documentVars, watchVars, nodes, predecessors, successors, cycles, scanned>>

-----------------------------------------------------------------------------
(* The checksum tools: a Markdown document and its sidecar file             *)
(* (tools/sync-checksums.py, tools/update-md-checksums.py).                  *)
(*                                                                           *)
(* A string is the sequence of its tokens; an Optional[str] is <<"none",     *)
(* <<>>>> or <<"str", s>>. The document is the sequence of its lines, each   *)
(* ended by a line feed; the regular expressions and string searches of the  *)
(* tools are taken on these lines.                                           *)

NoneStr == <<"none", <<>> >>

Str(s) == <<"str", s>>

\* `if checksum`: None and the empty string are false
TruthyStr(c) == c[1] = "str" /\ c[2] # <<>>

\* the lines: "---", "", a metadata field, "checksum_sha256: <value>"
\* ("checksum_sha256:" alone for the empty value), a line of body text
Delim == <<"delim", <<>> >>

Blank == <<"blank", <<>> >>

Field(text) == <<"field", <<text>> >>

ChecksumLine(value) == <<"checksum", value>>

TextLine(text) == <<"text", <<text>> >>

\* the characters of a line
LineText(line) ==
    CASE line[1] = "delim"    -> <<"---">>
      [] line[1] = "blank"    -> <<>>
      [] line[1] = "checksum" -> IF line[2] = <<>> THEN <<"checksum_sha256:">>
                                 ELSE <<"checksum_sha256:", " ">> \o line[2]
      [] OTHER                -> line[2]

\* the characters of a sequence of lines
RECURSIVE TextOf(_)
TextOf(lines) ==
    IF Len(lines) = 0 THEN <<>>
    ELSE LineText(Head(lines)) \o <<LF>> \o TextOf(Tail(lines))

\* hashlib.sha256(...).hexdigest() as a string, taken as injective
HexDigest(text) == <<"sha256">> \o text

\* content.startswith('---\n') and re.search(r'\n---\n', content[4:]): the
\* index of the closing "---" line, which is the first one from line 3 on; 0
\* when the document has no metadata block
ClosingIndex(lines) ==
    IF Len(lines) >= 1 /\ lines[1] = Delim
       /\ \E j \in 3..Len(lines) : lines[j] = Delim
    THEN CHOOSE j \in 3..Len(lines) :
            lines[j] = Delim /\ \A k \in 3..(j - 1) : lines[k] # Delim
    ELSE 0

\* frontmatter = content[4:end_pos - 4] and rest = content[end_pos:]
FrontmatterOf(lines) == SubSeq(lines, 2, ClosingIndex(lines) - 1)

RestOf(lines) == SubSeq(lines, ClosingIndex(lines) + 1, Len(lines))

\* Where a match of r'^checksum_sha256:\s*.+$' that starts at the checksum
\* line i of the frontmatter ends: at line i when the line has a value; else
\* \s* runs over the line feed and the blank lines that follow, and .+ takes
\* the next line that is not blank; 0 when there is none (no match at i).
MatchEnd(frontmatter, i) ==
    IF frontmatter[i][2] # <<>> THEN i
    ELSE IF \E k \in (i + 1)..Len(frontmatter) : frontmatter[k] # Blank
         THEN CHOOSE k \in (i + 1)..Len(frontmatter) :
                 /\ frontmatter[k] # Blank
                 /\ \A m \in (i + 1)..(k - 1) : frontmatter[m] = Blank
         ELSE 0

\* the checksum lines of the frontmatter at which the expression matches
MatchingLines(frontmatter) ==
    { i \in 1..Len(frontmatter) :
        frontmatter[i][1] = "checksum" /\ MatchEnd(frontmatter, i) # 0 }

\* re.search(r'^checksum_sha256:\s*(.+)$', frontmatter, re.MULTILINE) and
\* group(1).strip(): the value of the first match, None without a match
SearchChecksum(frontmatter) ==
    IF MatchingLines(frontmatter) = {} THEN NoneStr
    ELSE LET i == CHOOSE i \in MatchingLines(frontmatter) :
                     \A j \in MatchingLines(frontmatter) : i <= j
             k == MatchEnd(frontmatter, i)
         IN  IF k = i THEN Str(frontmatter[i][2])
             ELSE Str(LineText(frontmatter[k]))

\* extract_frontmatter(filepath)[1]: the checksum of the metadata block
ExtractFrontmatterChecksum(lines) ==
    IF ClosingIndex(lines) = 0 THEN NoneStr
    ELSE SearchChecksum(FrontmatterOf(lines))

\* re.sub(r'^checksum_sha256:\s*.+$', f'checksum_sha256: {new_checksum}',
\* frontmatter, flags=re.MULTILINE) from line i on: every match, with all the
\* lines it runs over, becomes the one new checksum line
RECURSIVE SubChecksum(_, _, _)
SubChecksum(frontmatter, i, new_checksum) ==
    IF i > Len(frontmatter) THEN <<>>
    ELSE IF frontmatter[i][1] = "checksum" /\ MatchEnd(frontmatter, i) # 0
         THEN <<ChecksumLine(new_checksum)>>
              \o SubChecksum(frontmatter, MatchEnd(frontmatter, i) + 1, new_checksum)
         ELSE <<frontmatter[i]>> \o SubChecksum(frontmatter, i + 1, new_checksum)

\* frontmatter.rstrip(), as lines: without the blank lines at the end
RECURSIVE RStripLines(_)
RStripLines(lines) ==
    IF Len(lines) > 0 /\ lines[Len(lines)] = Blank
    THEN RStripLines(SubSeq(lines, 1, Len(lines) - 1))
    ELSE lines

\* frontmatter.rstrip() + f'\nchecksum_sha256: {new_checksum}\n'
AddChecksum(frontmatter, new_checksum) ==
    IF RStripLines(frontmatter) = <<>>
    THEN <<Blank, ChecksumLine(new_checksum)>>
    ELSE Append(RStripLines(frontmatter), ChecksumLine(new_checksum))

\* update_frontmatter_checksum(filepath, new_checksum): whether it returns
\* True, and the lines of the file afterwards
UpdateFrontmatterChecksum(lines, new_checksum) ==
    IF ClosingIndex(lines) = 0 THEN [ ok |-> FALSE, lines |-> lines ]
    ELSE LET frontmatter == FrontmatterOf(lines)
             updated_frontmatter ==
                 IF \E i \in 1..Len(frontmatter) : frontmatter[i][1] = "checksum"
                 THEN SubChecksum(frontmatter, 1, new_checksum)
                 ELSE AddChecksum(frontmatter, new_checksum)
         IN  [ ok |-> TRUE,
               lines |-> <<Delim>> \o updated_frontmatter \o <<Delim>>
                         \o RestOf(lines) ]

\* The sidecar file: whether it exists, whether it holds valid JSON, and the
\* object it holds.
NoSidecar == [ exists |-> FALSE, valid |-> TRUE, data |-> EmptyMap ]

InvalidSidecar == [ exists |-> TRUE, valid |-> FALSE, data |-> EmptyMap ]

SidecarWith(data) == [ exists |-> TRUE, valid |-> TRUE, data |-> data ]

\* read_sidecar_checksum: data.get('checksum_sha256'), None for a missing or
\* unreadable file
ReadSidecarChecksum(sc) ==
    IF ~sc.exists \/ ~sc.valid THEN NoneStr
    ELSE IF "checksum_sha256" \in DOMAIN sc.data THEN sc.data["checksum_sha256"]
    ELSE NoneStr

\* the sidecar update_sidecar_checksum creates when there is none
MinimalSidecar ==
    [ k \in {"vault_id", "version"} |->
        IF k = "vault_id" THEN Str(<<>>) ELSE Str(<<"1.0.0">>) ]

\* update_sidecar_checksum(sidecar_path, new_checksum)
UpdateSidecarChecksum(sc, new_checksum) ==
    IF sc.exists /\ ~sc.valid THEN [ ok |-> FALSE, sidecar |-> sc ]
    ELSE LET data == IF sc.exists THEN sc.data ELSE MinimalSidecar
         IN  [ ok |-> TRUE,
               sidecar |-> SidecarWith(Put(data, "checksum_sha256",
                                           Str(new_checksum))) ]

\* calculate_checksum of a .md file: the digest of the content after the
\* metadata block, or of the whole content when there is no block
CalculateChecksum(lines) ==
    Str(HexDigest(TextOf(IF ClosingIndex(lines) # 0 THEN RestOf(lines) ELSE lines)))

\* ChecksumMismatch.has_drift
HasDrift(frontmatter_checksum, sidecar_checksum) ==
    IF TruthyStr(frontmatter_checksum) /\ TruthyStr(sidecar_checksum)
    THEN frontmatter_checksum # sidecar_checksum
    ELSE FALSE

\* (an is_correct that would ask for one matching copy only)
IsCorrectIfAnyMatches(frontmatter_checksum, sidecar_checksum, calculated_checksum) ==
    IF ~TruthyStr(calculated_checksum) THEN TRUE
    ELSE LET checksums == { c \in {frontmatter_checksum, sidecar_checksum} :
                              TruthyStr(c) }
         IN  checksums = {} \/ \E c \in checksums : c = calculated_checksum

\* ChecksumMismatch.is_correct
IsCorrect(frontmatter_checksum, sidecar_checksum, calculated_checksum) ==
    IF ~TruthyStr(calculated_checksum) THEN TRUE
    ELSE LET checksums == { c \in {frontmatter_checksum, sidecar_checksum} :
                              TruthyStr(c) }
         IN  \A c \in checksums : c = calculated_checksum

\* verify_file(filepath), with what has_drift() and is_correct() give
VerifyFileResult(lines, sc) ==
    LET frontmatter_checksum == ExtractFrontmatterChecksum(lines)
        sidecar_checksum     == ReadSidecarChecksum(sc)
        calculated_checksum  == CalculateChecksum(lines)
    IN  [ frontmatter_checksum |-> frontmatter_checksum,
          sidecar_checksum     |-> sidecar_checksum,
          calculated_checksum  |-> calculated_checksum,
          has_drift  |-> HasDrift(frontmatter_checksum, sidecar_checksum),
          is_correct |-> IsCorrect(frontmatter_checksum, sidecar_checksum,
                                   calculated_checksum) ]

VerifyFile ==
    /\ ret' = Returned("verify_file", None, None, VerifyFileResult(doc, sidecar))
    /\ UNCHANGED <<vaultVars, graphVars, watchVars, documentVars>>

SyncFromFrontmatter ==
    /\ LET frontmatter_checksum == ExtractFrontmatterChecksum(doc)
       IN  IF ~TruthyStr(frontmatter_checksum)
           THEN /\ ret' = Returned("sync", None, "frontmatter", FALSE)
                /\ UNCHANGED sidecar
           ELSE LET r == UpdateSidecarChecksum(sidecar, frontmatter_checksum[2])
                IN  /\ ret' = Returned("sync", None, "frontmatter", r.ok)
                    /\ sidecar' = r.sidecar
    /\ UNCHANGED <<vaultVars, graphVars, watchVars, doc>>

SyncFromSidecar ==
    /\ LET sidecar_checksum == ReadSidecarChecksum(sidecar)
       IN  IF ~TruthyStr(sidecar_checksum)
           THEN /\ ret' = Returned("sync", None, "sidecar", FALSE)
                /\ UNCHANGED doc
           ELSE LET r == UpdateFrontmatterChecksum(doc, sidecar_checksum[2])
                IN  /\ ret' = Returned("sync", None, "sidecar", r.ok)
                    /\ doc' = r.lines
    /\ UNCHANGED <<vaultVars, graphVars, watchVars, sidecar>>

\* recalculate_and_sync of a .md file
RecalculateAndSync ==
    /\ LET calculated_checksum == CalculateChecksum(doc)
           r1 == UpdateFrontmatterChecksum(doc, calculated_checksum[2])
           r2 == UpdateSidecarChecksum(sidecar, calculated_checksum[2])
       IN  /\ doc' = r1.lines
           /\ sidecar' = r2.sidecar
           /\ ret' = Returned("recalculate", None, None, r1.ok /\ r2.ok)
    /\ UNCHANGED <<vaultVars, graphVars, watchVars>>

-----------------------------------------------------------------------------
(* tools/update-md-checksums.py *)

\* content.startswith('---') and content.find('\n---', 3): the index of the
\* closing line, the first line from line 2 on that starts with "---"; 0 when
\* there is none
MdClosingIndex(lines) ==
    IF Len(lines) >= 1 /\ lines[1] = Delim
       /\ \E j \in 2..Len(lines) : lines[j] = Delim
    THEN CHOOSE j \in 2..Len(lines) :
            lines[j] = Delim /\ \A k \in 2..(j - 1) : lines[k] # Delim
    ELSE 0

\* str.strip(), as lines: without the blank lines at both ends
RECURSIVE LStripLines(_)
LStripLines(lines) ==
    IF Len(lines) > 0 /\ lines[1] = Blank THEN LStripLines(Tail(lines)) ELSE lines

\* extract_frontmatter(content): frontmatter = content[3:end_marker].strip()
MdFrontmatterOf(lines) ==
    LStripLines(RStripLines(SubSeq(lines, 2, MdClosingIndex(lines) - 1)))

\* ... body = content[content_start + 1:]
MdBodyOf(lines) == SubSeq(lines, MdClosingIndex(lines) + 1, Len(lines))

\* re.match(r'^[0-9a-fA-F]{64}$', value): the strings of 64 hex digits are the
\* digests
IsHex64(value) == Len(value) >= 1 /\ value[1] = "sha256"

\* ... the checksum of the first checksum_sha256 line: its value when that is
\* 64 hex digits or 'pending', else None
MdExtractChecksum(frontmatter) ==
    LET found == { i \in 1..Len(frontmatter) : frontmatter[i][1] = "checksum" }
    IN  IF found = {} THEN NoneStr
        ELSE LET i == CHOOSE i \in found : \A j \in found : i <= j
                 value == frontmatter[i][2]
             IN  IF IsHex64(value) \/ value = <<"pending">> THEN Str(value)
                 ELSE NoneStr

\* validators.checksum.calculate_file_checksum(path, skip_frontmatter=True)
CalculateFileChecksum(lines) ==
    Str(HexDigest(TextOf(IF MdClosingIndex(lines) # 0 THEN MdBodyOf(lines)
                         ELSE lines)))

\* line.strip().startswith('tags:') or line.strip().startswith('status:')
IsTagsOrStatus(line) == line \in { Field("status: draft"), Field("tags: [a]") }

\* update_frontmatter_checksum(frontmatter, new_checksum)
MdUpdateFrontmatterChecksum(frontmatter, new_checksum) ==
    IF \E i \in 1..Len(frontmatter) : frontmatter[i][1] = "checksum"
    THEN [ i \in 1..Len(frontmatter) |->
             IF frontmatter[i][1] = "checksum" THEN ChecksumLine(new_checksum)
             ELSE frontmatter[i] ]
    ELSE LET marks == { i \in 1..Len(frontmatter) : IsTagsOrStatus(frontmatter[i]) }
             insert_index == IF marks = {} THEN Len(frontmatter)
                             ELSE CHOOSE i \in marks : \A j \in marks : i <= j
         IN  SubSeq(frontmatter, 1, insert_index)
             \o <<ChecksumLine(new_checksum)>>
             \o SubSeq(frontmatter, insert_index + 1, Len(frontmatter))

\* process_file(file_path) of an existing .md file, neither verify_only nor
\* dry_run: whether it succeeds, and the lines of the file afterwards
ProcessFileResult(lines) ==
    IF MdClosingIndex(lines) = 0 THEN [ ok |-> FALSE, lines |-> lines ]
    ELSE LET frontmatter   == MdFrontmatterOf(lines)
             old_checksum  == MdExtractChecksum(frontmatter)
             actual_checksum == CalculateFileChecksum(lines)
         IN  IF old_checksum = NoneStr THEN [ ok |-> FALSE, lines |-> lines ]
             ELSE IF old_checksum = actual_checksum
             THEN [ ok |-> TRUE, lines |-> lines ]
             ELSE [ ok |-> TRUE,
                    lines |-> <<Delim>>
                              \o MdUpdateFrontmatterChecksum(frontmatter,
                                                             actual_checksum[2])
                              \o <<Delim>> \o MdBodyOf(lines) ]

ProcessFile ==
    /\ LET r == ProcessFileResult(doc)
       IN  /\ doc' = r.lines
           /\ ret' = Returned("process_file", None, None, r.ok)
    /\ UNCHANGED <<vaultVars, graphVars, watchVars, sidecar>>

-----------------------------------------------------------------------------
(* The documents and sidecars the checksum tools are given *)

\* digests that are not the digest of the document's content
StaleDigest == HexDigest(<<"old">>)

OtherDigest == HexDigest(<<"other">>)

BlockLines ==
    { Field("title: Doc"), Field("status: draft"), Blank,
      ChecksumLine(<<>>), ChecksumLine(StaleDigest) }

Body == << TextLine("body") >>

\* What the author makes of the document in one edit: the body alone, the body
\* under an empty metadata block, or one more line at the end of the block
\* (blocks grow to MaxBlockLen lines).
EditsOf(lines) ==
    { Body, <<Delim, Delim>> \o Body }
    \cup IF MdClosingIndex(lines) # 0 /\ MdClosingIndex(lines) - 2 < MaxBlockLen
         THEN { SubSeq(lines, 1, MdClosingIndex(lines) - 1) \o <<line>>
                \o SubSeq(lines, MdClosingIndex(lines), Len(lines))
                  : line \in BlockLines }
         ELSE {}

Sidecars ==
    { NoSidecar, InvalidSidecar }
    \cup { SidecarWith([ k \in {"vault_id"} |-> Str(<<"v">>) ]) }
    \cup { SidecarWith([ k \in {"vault_id", "checksum_sha256"} |->
                           IF k = "vault_id" THEN Str(<<"v">>) ELSE Str(c) ])
             : c \in { <<>>, StaleDigest, OtherDigest } }

\* the document is written by its author
EditDocument(lines) ==
    /\ doc # lines
    /\ doc' = lines
    /\ ret' = Returned("edit", None, "document", None)
    /\ UNCHANGED <<vaultVars, graphVars, watchVars, sidecar>>

\* the sidecar is written, or removed, by its author
EditSidecar(sc) ==
    /\ sidecar # sc
    /\ sidecar' = sc
    /\ ret' = Returned("edit", None, "sidecar", None)
    /\ UNCHANGED <<vaultVars, graphVars, watchVars, doc>>

-----------------------------------------------------------------------------
(* validators/checksum.py: verify_checksum *)

\* a path that exists and cannot be read as a file (a directory)
Unreadable == <<"unreadable">>

\* [0-9a-fA-F] on the model's characters
IsHexDigit(c) == c \in {"a", "A", "1"}

\* str.lower()
Lower(s) == [i \in 1..Len(s) |-> IF s[i] = "A" THEN "a" ELSE s[i]]

\* re.match(r'^[0-9a-fA-F]{64}$', s): the digits, then the end of the string
\* or a line feed that ends the string
MatchesHex64(s) ==
    /\ Len(s) >= HexLen
    /\ \A i \in 1..HexLen : IsHexDigit(s[i])
    /\ \/ Len(s) = HexLen
       \/ Len(s) = HexLen + 1 /\ s[HexLen + 1] = LF

\* hashlib.sha256(content).hexdigest(): lowercase hex digits, different for
\* the different contents of the model
HexDigestOf(content) ==
    [i \in 1..HexLen |->
        CASE content = <<"a">>      -> "a"
          [] content = <<"a", LF>>  -> "1"
          [] content = <<"a", "b">> -> IF i = 1 THEN "a" ELSE "1"
          [] OTHER                  -> IF i = 1 THEN "1" ELSE "a"]

\* calculate_file_checksum(file_path, skip_frontmatter) of a path that does
\* not end in '.md': the exception it raises, if any, and the digest
CalculateFileChecksumOfPath(file_path) ==
    IF fs[file_path] = Missing
    THEN [ raises |-> "FileNotFoundError", value |-> <<>> ]
    ELSE IF fs[file_path] = Unreadable
    THEN [ raises |-> "IsADirectoryError", value |-> <<>> ]
    ELSE [ raises |-> "none", value |-> HexDigestOf(fs[file_path]) ]

NoError == <<>>

\* verify_checksum(file_path, expected_checksum): (matches, error_message)
VerifyChecksumResult(file_path, expected_checksum) ==
    IF ~MatchesHex64(expected_checksum)
    THEN [ matches |-> FALSE,
           error |-> <<"Invalid checksum format", expected_checksum>> ]
    ELSE LET r == CalculateFileChecksumOfPath(file_path)
         IN  IF r.raises = "FileNotFoundError"
             THEN [ matches |-> FALSE, error |-> <<"File not found">> ]
             ELSE IF r.raises # "none"
             THEN [ matches |-> FALSE, error |-> <<"Error calculating checksum">> ]
             ELSE IF Lower(r.value) # Lower(expected_checksum)
             THEN [ matches |-> FALSE,
                    error |-> <<"Checksum mismatch", expected_checksum, r.value>> ]
             ELSE [ matches |-> TRUE, error |-> NoError ]

VerifyChecksum(file_path, expected_checksum) ==
    /\ ret' = Returned("verify_checksum", file_path, expected_checksum,
                       VerifyChecksumResult(file_path, expected_checksum))
    /\ UNCHANGED <<vaultVars, graphVars, watchVars, documentVars>>

\* the expected values given to verify_checksum: up to one character more
\* than a digest, over hex digits of both cases, a letter that is no hex
\* digit, and the line feed
ExpectedChars == {"a", "A", "1", "g", LF}

ExpectedChecksums == UNION { [1..n -> ExpectedChars] : n \in 0..(HexLen + 1) }

-----------------------------------------------------------------------------
(* VaultID (tools/vault_manager.py) and validate_vaultid                     *)
(* (validators/checks/format_checks.py). An identifier string is the         *)
(* sequence of its characters, with a scheme prefix as one element.          *)

Scheme == "AMOS://"

\* s.split(sep): the parts, as a non-empty sequence of sequences
RECURSIVE SplitOn(_, _, _)
SplitOn(s, sep, part) ==
    IF Len(s) = 0 THEN <<part>>
    ELSE IF s[1] = sep THEN <<part>> \o SplitOn(Tail(s), sep, <<>>)
         ELSE SplitOn(Tail(s), sep, Append(part, s[1]))

\* sep.join(parts)
RECURSIVE JoinWith(_, _)
JoinWith(parts, sep) ==
    IF Len(parts) = 0 THEN <<>>
    ELSE IF Len(parts) = 1 THEN parts[1]
         ELSE parts[1] \o <<sep>> \o JoinWith(Tail(parts), sep)

IsDigit(c) == c \in {"0", "1", "2", "3", "4", "5", "6", "7", "8", "9"}

\* [A-Za-z0-9_-] on the model's characters
IsTokenChar(c) == IsDigit(c) \/ c \in {"D", "v"}

\* [A-Za-z0-9_-]+
IsToken(t) == Len(t) >= 1 /\ \A i \in 1..Len(t) : IsTokenChar(t[i])

\* \d+(?:\.\d+)*
IsDottedNumeric(t) ==
    LET parts == SplitOn(t, ".", <<>>)
    IN  \A i \in 1..Len(parts) :
            Len(parts[i]) >= 1 /\ \A j \in 1..Len(parts[i]) : IsDigit(parts[i][j])

\* VAULTID_PATTERN.match(vault_id), for a string that starts with the scheme:
\* ^AMOS://[A-Za-z0-9_-]+(?:/[A-Za-z0-9_-]+)*(/v\d+(?:\.\d+)*)?$
MatchesVaultIdPattern(vault_id) ==
    LET parts == SplitOn(Tail(vault_id), "/", <<>>)
        n == Len(parts)
    IN  \/ \A i \in 1..n : IsToken(parts[i])
        \/ /\ n >= 2
           /\ \A i \in 1..(n - 1) : IsToken(parts[i])
           /\ Len(parts[n]) >= 1 /\ parts[n][1] = "v"
           /\ IsDottedNumeric(Tail(parts[n]))

\* the positions of the string at which '/v' ends: a "v" after a "/" or
\* directly after the scheme, which ends in "/"
SlashVEnds(vault_id) ==
    { i \in 2..Len(vault_id) :
        vault_id[i] = "v" /\ vault_id[i - 1] \in {"/", Scheme} }

\* validate_vaultid(vault_id): is_valid
ValidateVaultid(vault_id) ==
    IF Len(vault_id) = 0 THEN FALSE
    ELSE IF vault_id[1] # Scheme THEN FALSE
    ELSE IF ~MatchesVaultIdPattern(vault_id) THEN FALSE
    ELSE IF SlashVEnds(vault_id) # {}
    THEN LET last == CHOOSE i \in SlashVEnds(vault_id) :
                        \A j \in SlashVEnds(vault_id) : j <= i
             version_part == SubSeq(vault_id, last + 1, Len(vault_id))
         IN  IsDottedNumeric(version_part)
    ELSE TRUE

\* VaultID.parse(vault_id_str): whether it raises ValueError, and the VaultID
VaultIDParse(vault_id_str) ==
    IF Len(vault_id_str) = 0 \/ vault_id_str[1] # Scheme
    THEN [ raised |-> TRUE, domain |-> <<>>, resource |-> <<>>, version |-> <<>> ]
    ELSE LET parts == SplitOn(Tail(vault_id_str), "/", <<>>)
         IN  IF Len(parts) < 3
             THEN [ raised |-> TRUE, domain |-> <<>>, resource |-> <<>>,
                    version |-> <<>> ]
             ELSE [ raised |-> FALSE,
                    domain |-> parts[1],
                    resource |-> JoinWith(SubSeq(parts, 2, Len(parts) - 1), "/"),
                    version |-> parts[Len(parts)] ]

\* VaultID.__str__
VaultIDStr(x) ==
    <<Scheme>> \o x.domain \o <<"/">> \o x.resource \o <<"/">> \o x.version

\* str(n) of a non-negative int
RECURSIVE IntStr(_)
IntStr(n) ==
    LET digit == <<"0", "1", "2", "3", "4", "5", "6", "7", "8", "9">>[(n % 10) + 1]
    IN  IF n < 10 THEN <<digit>> ELSE Append(IntStr(n \div 10), digit)

\* patch: Optional[int], None or the one int in a tuple
NoPatch == <<>>

\* VaultID.generate(domain, resource, major, minor, patch)
VaultIDGenerate(domain, resource, major, minor, patch) ==
    [ raised |-> FALSE,
      domain |-> domain,
      resource |-> resource,
      version |-> IF patch # NoPatch
                  THEN <<"v">> \o IntStr(major) \o <<".">> \o IntStr(minor)
                       \o <<".">> \o IntStr(patch[1])
                  ELSE <<"v">> \o IntStr(major) \o <<".">> \o IntStr(minor) ]

\* validate_vaultid(s), VaultID.parse(s) and str() of what parse returned
ParseAndFormat(vault_id_str) ==
    /\ LET x == VaultIDParse(vault_id_str)
       IN  ret' = Returned("parse", None, vault_id_str,
                           [ valid |-> ValidateVaultid(vault_id_str),
                             raised |-> x.raised,
                             parsed |-> x,
                             formatted |-> IF x.raised THEN <<>> ELSE VaultIDStr(x) ])
    /\ UNCHANGED <<vaultVars, graphVars, watchVars, documentVars>>

\* VaultID.generate(...), str() of it and VaultID.parse of that string
GenerateAndParse(domain, resource, major, minor, patch) ==
    /\ LET x == VaultIDGenerate(domain, resource, major, minor, patch)
       IN  ret' = Returned("generate", None,
                           <<domain, resource, major, minor, patch>>,
                           [ generated |-> x,
                             formatted |-> VaultIDStr(x),
                             parsed |-> VaultIDParse(VaultIDStr(x)) ])
    /\ UNCHANGED <<vaultVars, graphVars, watchVars, documentVars>>

\* the characters of identifier strings after the scheme
IdChars == {"D", "v", "1", ".", "/"}

\* The string of the next parse: the empty string, a scheme alone, or the
\* string of the last parse with one more character (up to MaxIdLen
\* characters after the scheme).
NextIdStrings ==
    { <<>>, <<Scheme>>, <<"HTTP://">> }
    \cup IF /\ ret.op = "parse" /\ Len(ret.arg) >= 1 /\ ret.arg[1] = Scheme
             /\ Len(ret.arg) - 1 < MaxIdLen
          THEN { Append(ret.arg, c) : c \in IdChars }
          ELSE {}

\* token-valid domains and resources, and version numbers, given to generate
Tokens == { <<"D">>, <<"v", "1">> }

VersionNumbers == {0, 12}

-----------------------------------------------------------------------------
(* validators/checks/lineage_checks.py: validate_lineage_chain. An item is   *)
(* its vault_id and the predecessor and successor of its lineage; None is a  *)
(* missing key or a null.                                                    *)

\* predecessor.lower() in ['none', 'null']
IsNoneWord(x) == x \in {"none", "null"}

\* the first loop: the errors for missing and duplicate vault_ids
RECURSIVE IdErrors(_, _, _)
IdErrors(lineage_items, i, ids) ==
    IF i > Len(lineage_items) THEN <<>>
    ELSE LET vault_id == lineage_items[i].vault_id
         IN  IF ~Truthy(vault_id)
             THEN << <<"Item missing vault_id", i>> >>
                  \o IdErrors(lineage_items, i + 1, ids)
             ELSE (IF vault_id \in ids
                   THEN << <<"Duplicate vault_id", vault_id>> >> ELSE <<>>)
                  \o IdErrors(lineage_items, i + 1, ids \cup {vault_id})

\* ids after the first loop
ItemIds(lineage_items) ==
    { lineage_items[i].vault_id : i \in 1..Len(lineage_items) } \ {None, ""}

\* the second loop: the errors for the links of each item
RECURSIVE LinkErrors(_, _)
LinkErrors(lineage_items, i) ==
    IF i > Len(lineage_items) THEN <<>>
    ELSE LET vault_id == lineage_items[i].vault_id
             predecessor == lineage_items[i].predecessor
             successor == lineage_items[i].successor
         IN  IF ~Truthy(vault_id) THEN LinkErrors(lineage_items, i + 1)
             ELSE (IF /\ Truthy(predecessor) /\ ~IsNoneWord(predecessor)
                      /\ predecessor \notin ItemIds(lineage_items)
                   THEN << <<"Broken lineage", vault_id, predecessor>> >>
                   ELSE <<>>)
                  \o (IF predecessor = vault_id
                      THEN << <<"Self-referential predecessor", vault_id>> >>
                      ELSE <<>>)
                  \o (IF successor = vault_id
                      THEN << <<"Self-referential successor", vault_id>> >>
                      ELSE <<>>)
                  \o LinkErrors(lineage_items, i + 1)

\* validate_lineage_chain(lineage_items): (is_valid, error_messages)
ValidateLineageChain(lineage_items) ==
    LET errors == IdErrors(lineage_items, 1, {}) \o LinkErrors(lineage_items, 1)
    IN  [ is_valid |-> Len(errors) = 0, errors |-> errors ]

ValidateItems(lineage_items) ==
    /\ ret' = Returned("validate_items", None, lineage_items,
                       ValidateLineageChain(lineage_items))
    /\ UNCHANGED <<vaultVars, graphVars, watchVars, documentVars>>

\* the items: with or without a vault_id; links to items, to an id that no
\* item has, or the word 'none'
LineageItems ==
    [ vault_id : {None, "A", "B"},
      predecessor : {None, "A", "B", "Z", "none"},
      successor : {None, "A", "B", "Z"} ]

\* The list of the next call: the empty list, or the list of the last call
\* with one more item (up to MaxItems items).
NextItemLists ==
    { <<>> } \cup IF ret.op = "validate_items" /\ Len(ret.arg) < MaxItems
                  THEN { Append(ret.arg, item) : item \in LineageItems }
                  ELSE {}

-----------------------------------------------------------------------------
(* tools/watch.py: FileWatcher and the loop of WatchMode.run, on one watched  *)
(* file. Time is counted in tenths of a second.                               *)

\* FileWatcher.debounce_seconds = 0.5
DebounceTicks == 5

\* --interval: 0.1 s, 0.5 s, and the default 1.0 s
Intervals == {1, 5, 10}

\* how long validator.run() takes: the subprocess fails at once, or runs for
\* 0.1 s or 0.4 s
ValidationTicks == {0, 1, 4}

\* time.time() - self.last_validation, counted up to debounce_seconds: the
\* comparison of should_validate reads nothing more of it
Later(elapsed, ticks) ==
    IF elapsed + ticks >= DebounceTicks THEN DebounceTicks ELSE elapsed + ticks

\* Before WatchMode is constructed. st_mtime is the number of writes the file
\* has had; last_validation = 0 is long ago. pc is the position of the loop;
\* detected, validated and pending are history: the st_mtime of the last
\* change a poll detected, the st_mtime the file had when the last validation
\* run started, and whether a detected change has had no run started since.
WatchOff ==
    [ pc        |-> "off",
      interval  |-> 0,
      exists    |-> TRUE,
      st_mtime  |-> 0,
      watched   |-> FALSE,
      file_mtime |-> 0,
      elapsed   |-> DebounceTicks,
      detected  |-> 0,
      validated |-> 0,
      pending   |-> FALSE ]

\* WatchMode.__init__ (add_file for the file that exists) and run() up to the
\* initial validation, which does not touch last_validation
WatchStart(interval) ==
    /\ watch.pc = "off"
    /\ watch' = [ watch EXCEPT !.pc = "validate",
                               !.interval = interval,
                               !.watched = watch.exists,
                               !.file_mtime = watch.st_mtime,
                               !.validated = watch.st_mtime ]
    /\ UNCHANGED <<vaultVars, graphVars, documentVars, ret>>

\* validator.run() returns after `ticks`; the loop goes to time.sleep
ValidationReturns(ticks) ==
    /\ watch.pc = "validate"
    /\ watch' = [ watch EXCEPT !.pc = "sleep",
                               !.elapsed = Later(watch.elapsed, ticks) ]
    /\ UNCHANGED <<vaultVars, graphVars, documentVars, ret>>

\* FileWatcher.check_changes on the one file: it changed when it is watched
\* and is gone or has another st_mtime than the one recorded
FileChanged(w) == w.watched /\ (~w.exists \/ w.st_mtime # w.file_mtime)

\* FileWatcher.should_validate at the time `elapsed` after last_validation
ShouldValidate(elapsed) == elapsed >= DebounceTicks

\* One iteration of the watch loop up to the validation run: time.sleep,
\* check_changes, and for a change should_validate, which sets
\* last_validation when it answers True
PollOutcome(w) ==
    LET elapsed == Later(w.elapsed, w.interval)
        changed == FileChanged(w)
        checked == [ w EXCEPT !.watched = w.watched /\ w.exists,
                              !.file_mtime = IF changed /\ w.exists THEN w.st_mtime
                                             ELSE w.file_mtime,
                              !.detected = IF changed THEN w.st_mtime ELSE w.detected,
                              !.elapsed = elapsed ]
    IN  IF ~changed THEN checked
        ELSE IF ShouldValidate(elapsed)
        THEN [ checked EXCEPT !.pc = "validate", !.elapsed = 0,
                              !.validated = w.st_mtime, !.pending = FALSE ]
        ELSE [ checked EXCEPT !.pending = TRUE ]

Poll ==
    /\ watch.pc = "sleep"
    /\ watch' = PollOutcome(watch)
    /\ UNCHANGED <<vaultVars, graphVars, documentVars, ret>>

\* the watched file is written (or written again after it was deleted)
TouchFile ==
    /\ watch.st_mtime < MaxChanges
    /\ watch' = [ watch EXCEPT !.exists = TRUE, !.st_mtime = watch.st_mtime + 1 ]
    /\ UNCHANGED <<vaultVars, graphVars, documentVars, ret>>

\* the watched file is deleted
DeleteFile ==
    /\ watch.exists
    /\ watch' = [ watch EXCEPT !.exists = FALSE ]
    /\ UNCHANGED <<vaultVars, graphVars, documentVars, ret>>

-----------------------------------------------------------------------------
(* The vault specifications. All start from an empty vault directory with    *)
(* every artifact file holding the text "a", and differ in the inputs and    *)
(* the environment they explore.                                             *)

Init ==
    /\ manifest = DefaultManifest(0)
    /\ lineage_graph = EmptyMap
    /\ manifest_file = Absent
    /\ lineage_file = Absent
    /\ fs = [p \in Paths |-> <<"a">>]
    /\ now = 1
    /\ content_at_reg = EmptyMap
    /\ call = NoCall
    /\ mgr = [i \in Managers |-> Unopened]
    /\ disk = [d \in Dirs |-> EmptyDir]
    /\ doc = << TextLine("body") >>
    /\ sidecar = NoSidecar
    /\ GraphInit
    /\ watch = WatchOff
    /\ ret = Returned("init", None, None, None)

\* Spec: the lineage topology. Any ids and predecessors, in any order, with
\* re-registration; files stay readable and writes succeed.
Next ==
    \/ \E vault_id \in VaultIds, predecessor \in VaultIds \cup {None, ""} :
            Register(vault_id, "f1", predecessor, NoMetadata, "ok")
    \/ \E vault_id \in VaultIds, direction \in Directions : Trace(vault_id, direction)

Spec == Init /\ [][Next]_vars

\* IoSpec: persistence. The writes of the manifest and lineage files may fail,
\* and a new VaultManager may be constructed on the directory at any time.
IoIds == {"A", "B"}

IoNext ==
    \/ \E vault_id \in IoIds, predecessor \in {None, "A"},
          metadata \in MetadataArgs, outcome \in WriteOutcomes :
            Register(vault_id, "f1", predecessor, metadata, outcome)
    \/ Reopen

IoSpec == Init /\ [][IoNext]_vars

\* FileSpec: artifact files. The files are edited, replaced by undecodable
\* bytes or deleted between calls, and artifacts are verified.
FileNext ==
    \/ \E vault_id \in IoIds, file_path \in Paths :
            Register(vault_id, file_path, None, NoMetadata, "ok")
    \/ \E file_path \in Paths, content \in FileStates : WriteFile(file_path, content)
    \/ \E vault_id \in IoIds : Verify(vault_id)

FileSpec == Init /\ [][FileNext]_vars

\* QuerySpec: every read-side operation of the vault manager, between
\* register calls and edits of the artifact file.
QueryNext ==
    \/ \E vault_id \in IoIds, predecessor \in {None, "A"} :
            Register(vault_id, "f1", predecessor, NoMetadata, "ok")
    \/ \E content \in { <<"a">>, <<"a", "b">> } : WriteFile("f1", content)
    \/ \E vault_id \in IoIds : Verify(vault_id)
    \/ \E vault_id \in IoIds, c \in Calls : Begin(c[1], vault_id, c[2])
    \/ Iterate
    \/ GenerateLineageReport
    \/ ExportVaultState
    \/ StateHash

QuerySpec == Init /\ [][QueryNext]_vars

\* TwoVaultSpec: two vaults, each in its own directory with its own manager,
\* one register call at a time; the clock both read advances with every
\* registration.
TwoVaultNext ==
    \/ Open("m1", "d1")
    \/ Open("m2", "d2")
    \/ \E i \in Managers, vault_id \in IoIds, file_path \in Paths,
          metadata \in MetadataArgs :
            /\ \A j \in Managers : mgr[j].pc \in {"unopened", "idle"}
            /\ AssignEntries(i, vault_id, file_path, None, metadata)
    \/ \E i \in Managers : SaveManifest(i)
    \/ \E i \in Managers : SaveLineage(i)
    \/ \E i \in Managers : StateHashOf(i)

TwoVaultSpec == Init /\ [][TwoVaultNext]_vars

\* RaceSpec: two managers, in two processes, on the same vault directory.
RaceNext ==
    \/ \E i \in Managers : Open(i, "d1")
    \/ \E i \in Managers, vault_id \in IoIds, predecessor \in {None, "A"} :
            AssignEntries(i, vault_id, "f1", predecessor, NoMetadata)
    \/ \E i \in Managers : SaveManifest(i)
    \/ \E i \in Managers : SaveLineage(i)

RaceSpec == Init /\ [][RaceNext]_vars

\* ReconcileSpec: the checksum tools on one Markdown document and its sidecar.
ReconcileNext ==
    \/ \E lines \in EditsOf(doc) : EditDocument(lines)
    \/ \E sc \in Sidecars : EditSidecar(sc)
    \/ VerifyFile
    \/ SyncFromFrontmatter
    \/ SyncFromSidecar
    \/ RecalculateAndSync
    \/ ProcessFile

ReconcileSpec == Init /\ [][ReconcileNext]_vars

\* compute_checksum(content, canonicalize=True): the canonical text it hashes
Canonicalize(content) ==
    /\ ret' = Returned("canonicalize", None, content, CanonicalizeContent(content))
    /\ UNCHANGED <<vaultVars, graphVars, watchVars, documentVars>>

\* the texts: letters, the letter and accent that NFC composes, spaces, CR, LF
TextChars == {"a", "e", "^", SP, CR, LF}

\* The text of the next call: the empty text, or the text of the last call
\* with one more character (texts grow to MaxTextLen characters), so that
\* every text over TextChars of that length is given.
NextContents ==
    { <<>> } \cup IF ret.op = "canonicalize" /\ Len(ret.arg) < MaxTextLen
                  THEN { Append(ret.arg, c) : c \in TextChars }
                  ELSE {}

\* CanonSpec: the canonicalization applied to one text after another.
CanonNext == \E content \in NextContents : Canonicalize(content)

CanonSpec == Init /\ [][CanonNext]_vars

\* register_artifact called with discipline: the id is not registered yet, and
\* the predecessor is None or a registered id other than the id itself
DisciplinedRegister(vault_id, predecessor) ==
    /\ vault_id \notin DOMAIN lineage_graph
    /\ \/ predecessor = None
       \/ predecessor \in DOMAIN lineage_graph /\ predecessor # vault_id
    /\ Register(vault_id, "f1", predecessor, NoMetadata, "ok")

\* DisciplinedSpec: disciplined registration, and the traces, validations and
\* reports between the registrations. A loop that has begun goes on with its
\* next iteration: the caller's thread runs.
DisciplinedNext ==
    \/ \E vault_id \in VaultIds, predecessor \in VaultIds \cup {None} :
            DisciplinedRegister(vault_id, predecessor)
    \/ \E vault_id \in VaultIds, c \in Calls : Begin(c[1], vault_id, c[2])
    \/ Iterate
    \/ GenerateLineageReport

DisciplinedSpec == Init /\ [][DisciplinedNext]_vars /\ WF_vars(Iterate)

\* RegistrySpec: register calls that complete, for any ids and predecessors
\* (None, the empty string, the id itself, an id not registered), with
\* re-registration, and reports between them.
RegistryNext ==
    \/ \E vault_id \in VaultIds, predecessor \in VaultIds \cup {None, ""} :
            Register(vault_id, "f1", predecessor, NoMetadata, "ok")
    \/ GenerateLineageReport

RegistrySpec == Init /\ [][RegistryNext]_vars

\* WatchSpec: watch mode with any of the intervals, while the watched file
\* is written and deleted. The loop of WatchMode.run keeps running: a
\* validation run returns (the subprocess has a timeout) and a sleep ends.
WatchNext ==
    \/ \E interval \in Intervals : WatchStart(interval)
    \/ \E ticks \in ValidationTicks : ValidationReturns(ticks)
    \/ Poll
    \/ TouchFile
    \/ DeleteFile

WatchSpec ==
    /\ Init
    /\ [][WatchNext]_vars
    /\ WF_vars(Poll)
    /\ WF_vars(\E ticks \in ValidationTicks : ValidationReturns(ticks))

\* IdSpec: identifier strings are validated, parsed and formatted, and
\* identifiers are generated, formatted and parsed.
IdNext ==
    \/ \E vault_id_str \in NextIdStrings : ParseAndFormat(vault_id_str)
    \/ \E domain \in Tokens, resource \in Tokens,
          major \in VersionNumbers, minor \in VersionNumbers,
          patch \in {NoPatch} \cup { <<n>> : n \in VersionNumbers } :
            GenerateAndParse(domain, resource, major, minor, patch)

IdSpec == Init /\ [][IdNext]_vars

\* ItemsSpec: the lineage validator applied to one list of items after another.
ItemsNext == \E lineage_items \in NextItemLists : ValidateItems(lineage_items)

ItemsSpec == Init /\ [][ItemsNext]_vars

\* EngineSpec: the checksum engine on one file that is written, deleted or
\* replaced by a directory between the calls.
EngineNext ==
    \/ \E content \in FileStates \cup {Unreadable} : WriteFile("f1", content)
    \/ \E expected_checksum \in ExpectedChecksums :
            VerifyChecksum("f1", expected_checksum)

EngineSpec == Init /\ [][EngineNext]_vars

\* ChainSpec: lineage chains. Any predecessors, with re-registration, and the
\* loops of trace_lineage and validate_lineage_chain iteration by iteration.
ChainNext ==
    \/ \E vault_id \in VaultIds, predecessor \in VaultIds \cup {None} :
            Register(vault_id, "f1", predecessor, NoMetadata, "ok")
    \/ \E vault_id \in VaultIds, c \in Calls : Begin(c[1], vault_id, c[2])
    \/ Iterate

ChainSpec == Init /\ [][ChainNext]_vars

-----------------------------------------------------------------------------
(* The visualizer specifications, from an empty LineageGraph.               *)

\* GraphSpec: graphs built by add_node and add_edge.
GraphNext ==
    \/ \E node_id \in GraphIds : AddNode(node_id)
    \/ \E predecessor_id \in GraphIds, successor_id \in GraphIds :
            AddEdge(predecessor_id, successor_id)
    \/ DetectCycles

GraphSpec == Init /\ [][GraphNext]_vars

\* SidecarSpec: graphs built by scanning sidecar files, each naming at most one
\* predecessor and at most one successor.
LineageLists == { <<>> } \cup { <<id>> : id \in GraphIds }

SidecarNext ==
    \/ \E node_id \in GraphIds, preds \in LineageLists, succs \in LineageLists :
            ParseSidecar(node_id, preds, succs)
    \/ DetectCycles
    \/ DetectBrokenLinks

SidecarSpec == Init /\ [][SidecarNext]_vars

\* VisualizerSpec: graphs built by add_node, add_edge and sidecar files in any
\* order, each file naming up to two predecessors and up to two successors
\* (a node may be named twice, and may name itself).
VisualizerIds == {"A", "B"}

SidecarLists ==
    { <<>> } \cup { <<a>> : a \in VisualizerIds }
             \cup { <<a, b>> : a \in VisualizerIds, b \in VisualizerIds }

VisualizerNext ==
    \/ \E node_id \in VisualizerIds : AddNode(node_id)
    \/ \E predecessor_id \in VisualizerIds, successor_id \in VisualizerIds :
            AddEdge(predecessor_id, successor_id)
    \/ \E node_id \in VisualizerIds, preds \in SidecarLists, succs \in SidecarLists :
            ParseSidecar(node_id, preds, succs)

VisualizerSpec == Init /\ [][VisualizerNext]_vars

-----------------------------------------------------------------------------
(* Claims about the lineage topology, checked under Spec *)

\* The vault holds exactly one artifact, a, registered with no predecessor.
OnlyRoot(a) ==
    /\ lineage_graph = [x \in {a} |-> LineageChain(a, None)]
    /\ DOMAIN manifest.artifacts = {a}

\* The step is a completed register(vault_id, predecessor=predecessor).
RegisterCompleted(vault_id, predecessor) ==
    /\ ret'.op = "register"
    /\ ~ret'.raised
    /\ ret'.id = vault_id
    /\ ret'.arg = predecessor

\* C1: for distinct ids a and b, when the vault holds only a, registered with
\* no predecessor, a completed register(b, predecessor=a) leaves
\* trace(b, backward) = [b, a] and a.successor = b.
C1_RegisterThenTrace ==
    [][ \A a, b \in VaultIds :
          (a # b /\ OnlyRoot(a) /\ RegisterCompleted(b, a))
          => /\ TraceLineage(lineage_graph', b, "backward")
                  = [ diverges |-> FALSE, chain |-> <<b, a>> ]
             /\ lineage_graph'[a].successor = b ]_vars

\* C1 witness: after register(A) and register(B, predecessor=A), trace(B,
\* backward) was called and returned [B, A].
C1_Witness ==
    /\ ret.op = "trace" /\ ret.id = "B" /\ ret.arg = "backward"
    /\ ret.value = <<"B", "A">>
    /\ DOMAIN lineage_graph = {"A", "B"}
    /\ lineage_graph["A"].predecessor = None
    /\ lineage_graph["A"].successor = "B"
    /\ now = 3

\* Bidirectional consistency of a lineage graph g: a successor link a -> b
\* names a registered b whose predecessor is a.
Bidirectional(g) ==
    \A a \in DOMAIN g :
        g[a].successor # None =>
            /\ g[a].successor \in DOMAIN g
            /\ g[g[a].successor].predecessor = a

\* C4 as claimed: bidirectional consistency holds in every state reachable by
\* register calls, re-registration included.
C4_BidirectionalAlways == Bidirectional(lineage_graph)

\* C4 amended: a register call of an id that is not yet registered preserves
\* bidirectional consistency (so it holds as long as no id is registered twice,
\* also when several ids name the same predecessor).
C4_FreshRegisterKeepsBidirectional ==
    [][ ( /\ Bidirectional(lineage_graph)
          /\ ret'.op = "register"
          /\ ~ret'.raised
          /\ ret'.id \notin DOMAIN lineage_graph )
        => Bidirectional(lineage_graph') ]_vars

\* C4 witness: B and C were each registered once with predecessor A, and the
\* graph is consistent.
C4_Witness ==
    /\ ret.op = "register" /\ ~ret.raised /\ ret.id = "C" /\ ret.arg = "A"
    /\ now = 4
    /\ DOMAIN lineage_graph = {"A", "B", "C"}
    /\ lineage_graph["B"].predecessor = "A"
    /\ lineage_graph["C"].predecessor = "A"
    /\ lineage_graph["A"].successor = "C"
    /\ Bidirectional(lineage_graph)

\* the link trace follows from a registered id x
LinkOf(x, direction) ==
    IF direction = "backward" THEN lineage_graph[x].predecessor
    ELSE lineage_graph[x].successor

\* C11: trace(id, direction) returns [] for an id not in the lineage graph;
\* otherwise the list starts with id, every element but the last is registered
\* and is followed by its recorded predecessor (backward) or successor
\* (forward), and the last element either has no link or is not registered.
C11_TraceFollowsLinks ==
    ret.op = "trace" =>
      /\ ~ret.raised
      /\ IF ret.id \notin DOMAIN lineage_graph THEN ret.value = <<>>
         ELSE LET chain == ret.value
                  n == Len(chain)
              IN  /\ n >= 1
                  /\ chain[1] = ret.id
                  /\ \A i \in 1..(n - 1) :
                        /\ chain[i] \in DOMAIN lineage_graph
                        /\ LinkOf(chain[i], ret.arg) # None
                        /\ chain[i + 1] = LinkOf(chain[i], ret.arg)
                  /\ \/ chain[n] \notin DOMAIN lineage_graph
                     \/ LinkOf(chain[n], ret.arg) = None

\* C11 witness: C was registered with predecessor B and B with predecessor A,
\* A was never registered, and trace(C, backward) returned [C, B, A].
C11_Witness ==
    /\ ret.op = "trace" /\ ret.id = "C" /\ ret.arg = "backward"
    /\ DOMAIN lineage_graph = {"B", "C"}
    /\ ret.value = <<"C", "B", "A">>

-----------------------------------------------------------------------------
(* Claims about lineage chains, checked under ChainSpec *)

\* the id reached from x by k predecessor links, None when a link is missing
\* or leaves the graph
RECURSIVE PredecessorAt(_, _)
PredecessorAt(x, k) ==
    IF x \notin DOMAIN lineage_graph THEN None
    ELSE IF k = 0 THEN x
    ELSE PredecessorAt(lineage_graph[x].predecessor, k - 1)

\* the predecessor links from x lead back to x
OnPredecessorCycle(x) ==
    \E k \in 1..Cardinality(DOMAIN lineage_graph) : PredecessorAt(x, k) = x

\* C12: trace_lineage has no cycle guard. On a lineage graph in which the
\* predecessor links from A lead back to A (reachable through register alone,
\* for example register(A, predecessor=A)), no iteration of trace(A, backward),
\* called directly or by validate_chain(A), returns.
C12_TraceNeverReturnsOnCycle ==
    [][ ( /\ call.op \in {"trace", "validate"}
          /\ call.direction = "backward"
          /\ OnPredecessorCycle(call.id) )
        => /\ call'.op = call.op
           /\ ret'.op \notin {"trace", "validate"} ]_vars

\* C12 witness: after register(A, predecessor=A) alone, validate_chain(A) is
\* in its backward trace, which has appended A again in every iteration.
C12_Witness ==
    /\ DOMAIN lineage_graph = {"A"}
    /\ lineage_graph["A"].predecessor = "A"
    /\ now = 2
    /\ call.op = "validate" /\ call.id = "A"
    /\ call.chain = [i \in 1..(MaxChainLen + 1) |-> "A"]

\* the positions i >= 2 of a backward chain whose pair (chain[i-1], chain[i]),
\* later and earlier, fails: earlier is not registered, or its successor is
\* not later
FailingPairs(chain) ==
    { i \in 2..Len(chain) :
        \/ chain[i] \notin DOMAIN lineage_graph
        \/ lineage_graph[chain[i]].successor # chain[i - 1] }

\* the number of elements of S below i, plus one
RankIn(S, i) == Cardinality({ j \in S : j < i }) + 1

\* C13: validate_chain(id) never raises; for an id absent from the graph it
\* returns (false, [one issue]); for a registered id it returns valid=true
\* exactly when no consecutive pair of the backward trace fails, and otherwise
\* valid=false with one issue per failing pair, in chain order, each naming
\* the earlier id of its pair.
C13_ValidateListsAllBreaks ==
    ret.op = "validate" =>
      /\ ~ret.raised
      /\ IF ret.id \notin DOMAIN lineage_graph
         THEN ret.value[1] = FALSE /\ Len(ret.value[2]) = 1
         ELSE LET chain == TraceLineage(lineage_graph, ret.id, "backward").chain
                  failing == FailingPairs(chain)
                  issues == ret.value[2]
              IN  /\ ret.value[1] <=> (failing = {})
                  /\ Len(issues) = Cardinality(failing)
                  /\ \A i \in failing : issues[RankIn(failing, i)][2] = chain[i]

\* C13 witness: the backward trace of C is [C, B, A]; B has no successor and A
\* is not registered, and validate_chain(C) returned both issues.
C13_Witness ==
    /\ ret.op = "validate" /\ ret.id = "C" /\ ~ret.raised
    /\ DOMAIN lineage_graph = {"B", "C"}
    /\ ret.value = << FALSE, << <<"lineage break", "B", "C", None>>,
                              <<"missing lineage entry", "A">> >> >>

-----------------------------------------------------------------------------
(* Claims about the read-side operations, checked under QuerySpec *)

ReadOps == {"verify", "trace", "validate", "report", "export_state", "state_hash"}

\* The step belongs to a read-side operation: it returns from one, or it is
\* within a trace or validate_chain call.
ReadStep == ret'.op \in ReadOps \/ call.op # "none" \/ call'.op # "none"

\* C14: verify, trace, validate_chain, report, export_state and the state-hash
\* computation leave the in-memory manifest, the in-memory lineage graph and
\* both persisted files as they were.
C14_ReadOperationsChangeNothing ==
    [][ ReadStep
        => UNCHANGED <<manifest, lineage_graph, manifest_file, lineage_file>> ]_vars

\* C14 witness: with A and B registered and persisted and the file of A
\* edited, verify reported the mismatch and the recorded checksum is still the
\* one taken at registration.
C14_Witness ==
    /\ ret.op = "verify" /\ ret.id = "A" /\ ~ret.raised
    /\ ret.value[1] = FALSE
    /\ DOMAIN manifest.artifacts = {"A", "B"}
    /\ manifest.checksums["A"] = ComputeChecksum(content_at_reg["A"])
    /\ manifest.checksums["A"] # ComputeChecksum(fs["f1"])
    /\ LoadManifest(manifest_file, now) = manifest
    /\ LoadLineage(lineage_file) = lineage_graph

-----------------------------------------------------------------------------
(* Claims about the state hash of two vaults, checked under TwoVaultSpec *)

\* both managers are open and between calls
BothIdle == \A i \in Managers : mgr[i].pc = "idle"

\* the same ids are registered in m1 and m2, each with the same file, metadata
\* and checksum
SameRegistrations(m1, m2) ==
    /\ DOMAIN m1.artifacts = DOMAIN m2.artifacts
    /\ \A k \in DOMAIN m1.artifacts :
          /\ m1.artifacts[k].file_path = m2.artifacts[k].file_path
          /\ m1.artifacts[k].metadata = m2.artifacts[k].metadata
    /\ m1.checksums = m2.checksums

\* two ids were registered in one order in m1 and in the other order in m2
DifferentOrder(m1, m2) ==
    \E a, b \in DOMAIN m1.artifacts :
        /\ m1.artifacts[a].registered_at < m1.artifacts[b].registered_at
        /\ m2.artifacts[a].registered_at > m2.artifacts[b].registered_at

\* C15: two vaults in which the same ids were registered with the same files
\* and metadata, in a different order, have equal state hashes; and two vaults
\* that differ in a recorded checksum or artifact entry have different state
\* hashes.
C15_StateHashIgnoresOrder ==
    BothIdle =>
      LET m1 == mgr["m1"].manifest
          m2 == mgr["m2"].manifest
      IN  /\ (SameRegistrations(m1, m2) /\ DifferentOrder(m1, m2))
                => ComputeVaultStateHash(m1) = ComputeVaultStateHash(m2)
          /\ (m1.checksums # m2.checksums
                 \/ ~SameRegistrations(m1, m2))
                => ComputeVaultStateHash(m1) # ComputeVaultStateHash(m2)

-----------------------------------------------------------------------------
(* Claims about two managers on one directory, checked under RaceSpec *)

\* the ids a persisted manifest and a persisted lineage file hold
ManifestFileIds(d) == DOMAIN LoadManifest(disk[d].manifest_file, now).artifacts

LineageFileIds(d) == DOMAIN LoadLineage(disk[d].lineage_file)

\* C16: no locking protects a vault directory. Each save of a manager
\* replaces the file by the manager's own in-memory state, whatever another
\* manager has written since this one loaded: after _save_manifest the
\* manifest file holds exactly the saving manager's manifest, after
\* _save_lineage the lineage file exactly its lineage graph. So a completed
\* registration of the other manager is lost, and the two files can hold
\* different sets of ids (the witness).
C16_SaveReplacesFileWithOwnState ==
    [][ \A i \in Managers :
          /\ (mgr[i].pc = "save_manifest" /\ mgr'[i].pc = "save_lineage")
               => LoadManifest(disk'[mgr[i].dir].manifest_file, now) = mgr[i].manifest
          /\ (mgr[i].pc = "save_lineage" /\ mgr'[i].pc = "idle")
               => LoadLineage(disk'[mgr[i].dir].lineage_file) = mgr[i].lineage_graph
      ]_vars

\* C16 witness: both managers were opened on the empty directory; register(A)
\* of m1 and register(B) of m2 both completed, with the two saves of m2
\* between the two saves of m1: the persisted manifest lacks A, which m1
\* registered, and the two files hold different sets of ids.
C16_Witness ==
    /\ BothIdle
    /\ mgr["m1"].dir = "d1" /\ mgr["m2"].dir = "d1"
    /\ "A" \in DOMAIN mgr["m1"].manifest.artifacts
    /\ DOMAIN mgr["m2"].manifest.artifacts = {"B"}
    /\ ManifestFileIds("d1") = {"B"}
    /\ "A" \in LineageFileIds("d1")
    /\ ManifestFileIds("d1") # LineageFileIds("d1")

-----------------------------------------------------------------------------
(* Claims about the checksum tools, checked under ReconcileSpec *)

\* a copy of the checksum is present: it is a string, and not the empty one
Present(c) == c # NoneStr /\ c # Str(<<>>)

EmbeddedValue(lines) ==
    IF ClosingIndex(lines) = 0 THEN NoneStr
    ELSE LET block == SubSeq(lines, 2, ClosingIndex(lines) - 1)
             found == { i \in 1..Len(block) : block[i][1] = "checksum" }
         IN  IF found = {} THEN NoneStr
             ELSE Str(block[CHOOSE i \in found : \A j \in found : i <= j][2])

\* the value the sidecar gives checksum_sha256, None when there is no
\* readable sidecar or it has no such key
SidecarValue(sc) ==
    IF sc.exists /\ sc.valid /\ "checksum_sha256" \in DOMAIN sc.data
    THEN sc.data["checksum_sha256"]
    ELSE NoneStr

\* C18: a sync whose source location has no value reports failure and changes
\* neither the document nor the sidecar; a sync that succeeds leaves the
\* source location as it was and the other location holding the source's
\* value, so that the two locations do not drift.
C18_SyncCopiesOrFails ==
    [][ ret'.op = "sync" =>
          LET from_frontmatter == ret'.arg = "frontmatter"
              source == IF from_frontmatter THEN EmbeddedValue(doc)
                        ELSE SidecarValue(sidecar)
          IN  IF ~Present(source)
              THEN ~ret'.value /\ doc' = doc /\ sidecar' = sidecar
              ELSE ret'.value =>
                     /\ EmbeddedValue(doc') = source
                     /\ SidecarValue(sidecar') = source
                     /\ IF from_frontmatter THEN doc' = doc
                        ELSE sidecar' = sidecar
                     /\ ~HasDrift(EmbeddedValue(doc'), SidecarValue(sidecar'))
      ]_vars

\* C19: after recalculate on a document whose sidecar, if it has one, is
\* readable, the embedded location and the sidecar location both hold the
\* digest of the document's content, and verify_file reports no drift and a
\* correct artifact; so recalculate never updates one location alone.
C19_RecalculateWritesBoth ==
    (ret.op = "recalculate" /\ sidecar.valid) =>
      /\ EmbeddedValue(doc) = CalculateChecksum(doc)
      /\ SidecarValue(sidecar) = CalculateChecksum(doc)
      /\ ~VerifyFileResult(doc, sidecar).has_drift
      /\ VerifyFileResult(doc, sidecar).is_correct

\* the lines between the opening "---" and the next "---" of a document
BlockOf(lines) ==
    IF Len(lines) >= 1 /\ lines[1] = Delim /\ \E j \in 2..Len(lines) : lines[j] = Delim
    THEN SubSeq(lines, 2, (CHOOSE j \in 2..Len(lines) :
                             lines[j] = Delim /\ \A k \in 2..(j - 1) : lines[k] # Delim) - 1)
    ELSE <<>>

IsField(line) == line[1] = "field"

\* the fields of the metadata block other than checksum_sha256, in their order
FieldsOf(lines) == SelectSeq(BlockOf(lines), IsField)

\* the document after its metadata block
BodyOf(lines) ==
    IF Len(lines) >= 1 /\ lines[1] = Delim /\ \E j \in 2..Len(lines) : lines[j] = Delim
    THEN SubSeq(lines, Len(BlockOf(lines)) + 3, Len(lines))
    ELSE lines

\* a step in which a tool wrote the document
EmbeddedWrite ==
    /\ \/ ret'.op = "sync" /\ ret'.arg = "sidecar"
       \/ ret'.op = "recalculate"
       \/ ret'.op = "process_file"
    /\ doc' # doc

\* C20: a write of a checksum to the metadata block (sync from the sidecar,
\* recalculate, the Markdown checksum updater) leaves the other fields of the
\* block, their order, and the body after the block as they were.
C20_EmbeddedWriteKeepsFields ==
    [][ EmbeddedWrite =>
          FieldsOf(doc') = FieldsOf(doc) /\ BodyOf(doc') = BodyOf(doc) ]_vars

-----------------------------------------------------------------------------
(* Claims about canonical-text hashing, checked under CanonSpec *)

\* the text has LF-only line endings, no space before a line end, and ends
\* with exactly one line feed
IsCanonicalForm(t) ==
    /\ \A i \in 1..Len(t) : t[i] # CR
    /\ \A i \in 2..Len(t) : t[i] = LF => t[i - 1] # SP
    /\ Len(t) >= 1 /\ t[Len(t)] = LF
    /\ Len(t) >= 2 => t[Len(t) - 1] # LF

\* C22: canonicalizing a canonicalized text gives the same text, so the
\* canonical digest of the canonicalized text is that of the text; the
\* canonicalized text has LF-only line endings, no trailing whitespace on any
\* line and exactly one trailing newline.
C22_CanonicalizeIdempotent ==
    ret.op = "canonicalize" =>
      /\ CanonicalizeContent(ret.value) = ret.value
      /\ ComputeChecksum(ret.value) = ComputeChecksum(ret.arg)
      /\ IsCanonicalForm(ret.value)

\* C22 witness: a text with a trailing space, a CR LF line ending and a
\* second line was canonicalized to a different text.
C22_Witness ==
    /\ ret.op = "canonicalize"
    /\ ret.arg = <<"a", SP, CR, LF>>
    /\ ret.value = <<"a", LF>>

-----------------------------------------------------------------------------
(* Claims about disciplined registration, checked under DisciplinedSpec *)

NoRepeat(chain) ==
    \A i, j \in 1..Len(chain) : i # j => chain[i] # chain[j]

\* in this state every trace, from every id and in both directions, ends and
\* has no repeated element (the report traces forward from the roots, and
\* validate_lineage_chain traces backward); the loop in progress and the
\* trace last returned have no repeated element
TracesEnd ==
    /\ \A vault_id \in DOMAIN lineage_graph, direction \in Directions :
          LET r == TraceLineage(lineage_graph, vault_id, direction)
          IN  ~r.diverges /\ NoRepeat(r.chain)
    /\ NoRepeat(call.chain)
    /\ ret.op = "trace" => NoRepeat(ret.value)

\* C26: under disciplined registration every trace (backward and forward),
\* every validate_lineage_chain and every report ends in every reachable
\* state: no trace reaches an id twice, so the forward traces of the report
\* end, and a loop that has begun returns; every trace has no repeated
\* element.
C26_DisciplinedCallsTerminate ==
    /\ []TracesEnd
    /\ (call.op # "none") ~> (call.op = "none")

\* C26 witness: three ids are registered in a chain and the backward trace
\* from the last has returned the three of them.
C26_Witness ==
    /\ DOMAIN lineage_graph = VaultIds
    /\ ret.op = "trace"
    /\ ret.arg = "backward"
    /\ Len(ret.value) = 3

-----------------------------------------------------------------------------
(* Claims about the registry, checked under RegistrySpec *)

\* every forward trace that generate_lineage_report runs returns
ReportReturns ==
    \A root \in DOMAIN lineage_graph :
        lineage_graph[root].predecessor = None
        => ~TraceLineage(lineage_graph, root, "forward").diverges

\* C27: after any sequence of completed register calls on an empty vault the
\* keys of manifest['artifacts'], of manifest['checksums'] and of
\* lineage_graph are the same set, every lineage entry holds its own key as
\* vault_id, and generate_lineage_report returns with total_artifacts equal to
\* the number of registered ids.
C27_IdSetsCoincide ==
    /\ DOMAIN manifest.artifacts = DOMAIN manifest.checksums
    /\ DOMAIN manifest.checksums = DOMAIN lineage_graph
    /\ \A k \in DOMAIN lineage_graph : lineage_graph[k].vault_id = k
    /\ ReportReturns
    /\ LineageReport(lineage_graph).total_artifacts
         = Cardinality(DOMAIN manifest.artifacts)
    /\ ret.op = "report"
         => ret.value.total_artifacts = Cardinality(DOMAIN manifest.checksums)

\* what a register call that returned may change, and what it leaves: vault_id
\* and predecessor are the arguments of the call
RegisterFrame(vault_id, predecessor) ==
    /\ DOMAIN manifest'.artifacts = DOMAIN manifest.artifacts \cup {vault_id}
    /\ DOMAIN manifest'.checksums = DOMAIN manifest.checksums \cup {vault_id}
    /\ DOMAIN lineage_graph' = DOMAIN lineage_graph \cup {vault_id}
    /\ \A k \in DOMAIN manifest.artifacts \ {vault_id} :
          manifest'.artifacts[k] = manifest.artifacts[k]
    /\ \A k \in DOMAIN manifest.checksums \ {vault_id} :
          manifest'.checksums[k] = manifest.checksums[k]
    /\ manifest'.vault_version = manifest.vault_version
    /\ manifest'.created_at = manifest.created_at
    /\ manifest'.lineage_chains = manifest.lineage_chains
    /\ \A k \in DOMAIN lineage_graph \ {vault_id} :
          lineage_graph'[k] =
              IF k = predecessor THEN [ lineage_graph[k] EXCEPT !.successor = vault_id ]
              ELSE lineage_graph[k]

\* the entry the call gives the id: the predecessor as given, no successor
RegisterEntry(vault_id, predecessor) ==
    /\ lineage_graph'[vault_id].vault_id = vault_id
    /\ lineage_graph'[vault_id].predecessor = predecessor
    /\ lineage_graph'[vault_id].successor = None

\* C28: a register call changes at most the manifest entry and checksum of
\* its id, the lineage entry of its id, which is replaced by one with the
\* predecessor as given and no successor, and the successor of a registered
\* predecessor; every other entry, checksum and lineage entry is as before.
C28_RegisterFrame ==
    [][ ret'.op = "register" /\ now' # now
        => /\ RegisterFrame(ret'.id, ret'.arg)
           /\ RegisterEntry(ret'.id, ret'.arg) ]_vars

-----------------------------------------------------------------------------
(* Claims about the visualizer's graph, checked under VisualizerSpec *)

\* the node set and the edge sets of a graph, without the order of the nodes
NodeAndEdgeSets(g) ==
    [ nodes        |-> Elements(g.nodes),
      predecessors |-> g.predecessors,
      successors   |-> g.successors ]

\* the sidecar files of a scan: <<vault_id, predecessors, successors>>
SidecarFiles == VisualizerIds \X SidecarLists \X SidecarLists

EdgesSymmetric ==
    \A a \in Elements(nodes), b \in Elements(nodes) :
        b \in successors[a] <=> a \in predecessors[b]

EdgesClosed ==
    \A a \in Elements(nodes) :
        predecessors[a] \cup successors[a] \subseteq Elements(nodes)

AddEdgeIdempotent ==
    \A a \in VisualizerIds, b \in VisualizerIds :
        WithEdge(WithEdge(Graph, a, b), a, b) = WithEdge(Graph, a, b)

ScanOrderIrrelevant ==
    \A f1 \in SidecarFiles, f2 \in SidecarFiles :
        NodeAndEdgeSets(WithSidecar(WithSidecar(Graph, f1[1], f1[2], f1[3]),
                                    f2[1], f2[2], f2[3]))
        = NodeAndEdgeSets(WithSidecar(WithSidecar(Graph, f2[1], f2[2], f2[3]),
                                      f1[1], f1[2], f1[3]))

\* C29: in every graph built by add_node, add_edge and parse_sidecar, b is a
\* successor of a exactly when a is a predecessor of b, every id among the
\* predecessors or successors of a node is a node, adding an edge a second
\* time changes nothing, and scanning two sidecar files in either order gives
\* the same node set and the same edge sets.
C29_EdgesSymmetricAndClosed ==
    /\ DOMAIN predecessors = Elements(nodes)
    /\ DOMAIN successors = Elements(nodes)
    /\ EdgesSymmetric
    /\ EdgesClosed
    /\ AddEdgeIdempotent
    /\ ScanOrderIrrelevant

C29_Witness ==
    /\ ret.op = "parse_sidecar"
    /\ nodes = <<"B", "A">>
    /\ successors["A"] = {"A", "B"}
    /\ predecessors["A"] = {"A"}
    /\ successors["B"] = {}

-----------------------------------------------------------------------------
(* Claims about watch mode, checked under WatchSpec *)

\* C30: in watch mode with any interval, a change of the watched file that a
\* poll detected is followed by a validation run that started after the
\* change: debouncing never leaves the latest detected change without one.
C30_DetectedChangeIsValidated ==
    watch.pending ~> ~watch.pending

-----------------------------------------------------------------------------
(* Claims about identifiers, checked under IdSpec *)

\* C23: for every identifier string the validator accepts, parse succeeds
\* and formatting what it returned gives the string back; and for every
\* identifier generated from token-valid domain and resource, parsing its
\* formatted string gives the identifier back.
C23_ParseFormatRoundTrip ==
    /\ (ret.op = "parse" /\ ret.value.valid) =>
          ~ret.value.raised /\ ret.value.formatted = ret.arg
    /\ ret.op = "generate" =>
          ~ret.value.parsed.raised /\ ret.value.parsed = ret.value.generated

\* the path segments that follow the scheme
SegmentsOf(vault_id_str) == SplitOn(Tail(vault_id_str), "/", <<>>)

\* the last segment is a version suffix, "v" and more, that is not "v"
\* followed by dot-separated non-negative integers
HasBadVersion(vault_id_str) ==
    LET last == SegmentsOf(vault_id_str)[Len(SegmentsOf(vault_id_str))]
    IN  Len(last) >= 1 /\ last[1] = "v" /\ ~IsDottedNumeric(Tail(last))

\* C24: parse fails exactly when the scheme prefix is absent, or fewer than
\* two path segments follow it, or a version suffix is present that is not
\* "v" followed by dot-separated non-negative integers; for every other
\* string it returns an identifier.
C24_ParseFailsExactly ==
    ret.op = "parse" =>
      ( ret.value.raised <=>
          \/ Len(ret.arg) = 0
          \/ ret.arg[1] # Scheme
          \/ Len(SegmentsOf(ret.arg)) < 2
          \/ HasBadVersion(ret.arg) )

-----------------------------------------------------------------------------
(* Claims about the lineage validator, checked under ItemsSpec *)

\* the ids that name an item
NamedIds(items) == { items[i].vault_id : i \in 1..Len(items) } \ {None}

\* the links of the items: from an item's id to its predecessor, or to its
\* successor
Links(items, field) ==
    { <<items[i].vault_id, IF field = "predecessor" THEN items[i].predecessor
                           ELSE items[i].successor>> : i \in 1..Len(items) }

\* the ids reached from id a by one to k links
RECURSIVE ReachedBy(_, _, _)
ReachedBy(links, a, k) ==
    IF k = 0 THEN {}
    ELSE LET next == { l[2] : l \in { m \in links : m[1] = a } }
         IN  next \cup UNION { ReachedBy(links, b, k - 1) : b \in next }

HasCircularReference(items) ==
    \E field \in {"predecessor", "successor"}, a \in NamedIds(items) :
        a \in ReachedBy(Links(items, field), a, Len(items))

HasBrokenLink(items) ==
    \E i \in 1..Len(items) :
        \E link \in {items[i].predecessor, items[i].successor} :
            link \notin {None, "none"} /\ link \notin NamedIds(items)

HasDuplicateId(items) ==
    \E i, j \in 1..Len(items) :
        i < j /\ items[i].vault_id # None /\ items[i].vault_id = items[j].vault_id

\* C25: validate_lineage_chain returns is_valid = true only if the items have
\* no circular reference of any length, no broken predecessor or successor
\* link and no duplicate vault_id; with any of the three it returns
\* is_valid = false and an error message.
C25_ValidOnlyIfChainClean ==
    ret.op = "validate_items" =>
      ( ( \/ HasCircularReference(ret.arg)
          \/ HasBrokenLink(ret.arg)
          \/ HasDuplicateId(ret.arg) )
        => ~ret.value.is_valid /\ Len(ret.value.errors) >= 1 )

-----------------------------------------------------------------------------
(* Claims about the checksum engine, checked under EngineSpec *)

\* an expected value of the right form: as many characters as a digest has,
\* all of them hex digits
WellFormed(s) == Len(s) = HexLen /\ \A i \in 1..Len(s) : IsHexDigit(s[i])

\* C21: verify_checksum never raises; an expected value that is not
\* well-formed gives a format error, also when the file is missing; a
\* well-formed one and a missing file give a not-found error; unequal digests
\* give matches = false with a message holding the expected and the actual
\* digest; and (true, no error) is returned exactly when the expected value is
\* well-formed, the file exists and the digests are equal up to letter case.
C21_VerifyChecksumResults ==
    ret.op = "verify_checksum" =>
      LET expected == ret.arg
          file == fs[ret.id]
          r == ret.value
      IN  /\ ~ret.raised
          /\ ~WellFormed(expected) =>
                ~r.matches /\ r.error[1] = "Invalid checksum format"
          /\ (WellFormed(expected) /\ file = Missing) =>
                ~r.matches /\ r.error[1] = "File not found"
          /\ (WellFormed(expected) /\ file \notin {Missing, Unreadable}
                 /\ Lower(HexDigestOf(file)) # Lower(expected)) =>
                /\ ~r.matches
                /\ r.error = <<"Checksum mismatch", expected, HexDigestOf(file)>>
          /\ (r.matches /\ r.error = NoError) <=>
                /\ WellFormed(expected)
                /\ file \notin {Missing, Unreadable}
                /\ Lower(HexDigestOf(file)) = Lower(expected)

-----------------------------------------------------------------------------
(* Claims about persistence, checked under IoSpec *)

\* C5: a register call that raises leaves the in-memory manifest, the
\* in-memory lineage graph, the manifest file and the lineage file as they
\* were before the call.
C5_RegisterAtomic ==
    [][ (ret'.op = "register" /\ ret'.raised)
        => UNCHANGED <<manifest, lineage_graph, manifest_file, lineage_file>> ]_vars

-----------------------------------------------------------------------------
(* Claims about verify_artifact, checked under FileSpec *)

Registered(vault_id) == vault_id \in DOMAIN manifest.artifacts

RecordedFile(vault_id) == manifest.artifacts[vault_id].file_path

\* the first condition of verify that fails for vault_id, "none" if none does
FirstFailing(vault_id) ==
    IF ~Registered(vault_id) THEN "not registered"
    ELSE IF fs[RecordedFile(vault_id)] = Missing THEN "file not found"
    ELSE IF vault_id \notin DOMAIN manifest.checksums THEN "no checksum recorded"
    ELSE IF \/ fs[RecordedFile(vault_id)] = Undecodable
            \/ manifest.checksums[vault_id]
                 # Sha256Hex(CanonicalizeContent(fs[RecordedFile(vault_id)]))
         THEN "checksum mismatch"
    ELSE "none"

\* C2: verify never raises; it returns (true, []) exactly when no condition
\* fails, else (false, [issue]) naming the first failing condition; and it
\* returns (true, []) for an id whose file is as it was when registered.
C2_VerifyTotal ==
    /\ ret.op = "verify" =>
         /\ ~ret.raised
         /\ ret.value[1] <=> (FirstFailing(ret.id) = "none")
         /\ ret.value[1] => ret.value[2] = <<>>
         /\ ~ret.value[1] => /\ Len(ret.value[2]) = 1
                             /\ ret.value[2][1][1] = FirstFailing(ret.id)
    /\ \A vault_id \in IoIds :
         (Registered(vault_id)
            /\ fs[RecordedFile(vault_id)] = content_at_reg[vault_id])
         => VerifyArtifact(vault_id)
              = [ raised |-> FALSE, valid |-> TRUE, issues |-> <<>> ]

\* the issue verify gives for a digest mismatch, with both digests
MismatchIssue(expected, actual) == <<"checksum mismatch", expected, actual>>

-----------------------------------------------------------------------------
(* Claims about detect_cycles, checked under GraphSpec *)

NodeSet == Elements(nodes)

\* the nodes that have a successor
WithSuccessor == { n \in NodeSet : successors[n] # {} }

\* the only successor of a node that has exactly one
TheSuccessor(n) == CHOOSE m \in successors[n] : TRUE

\* the nodes reached from n by k successor steps, in a graph where every node
\* on the way has exactly one successor
RECURSIVE Orbit(_, _)
Orbit(n, k) == IF k = 0 THEN {} ELSE {n} \cup Orbit(TheSuccessor(n), k - 1)

\* The successor edges form exactly one simple directed cycle of at least two
\* nodes: every node with a successor has exactly one, and following the
\* successors from any of them passes through all of them.
SingleCycle ==
    /\ Cardinality(WithSuccessor) >= 2
    /\ \A n \in WithSuccessor :
          /\ Cardinality(successors[n]) = 1
          /\ successors[n] \subseteq WithSuccessor
    /\ \A n \in WithSuccessor : Orbit(n, Cardinality(WithSuccessor)) = WithSuccessor

\* c is a closed directed path over successor edges
ClosedPath(c) ==
    /\ Len(c) >= 2
    /\ c[1] = c[Len(c)]
    /\ \A i \in 1..(Len(c) - 1) :
          c[i] \in NodeSet /\ c[i + 1] \in successors[c[i]]

\* C7: when the successor edges form exactly one simple cycle of n >= 2 nodes,
\* detect_cycles returns exactly one list, of length n + 1, closed, whose first
\* n elements are the cycle's nodes in successor order.
C7_SingleCycleReported ==
    (ret.op = "detect_cycles" /\ SingleCycle)
    => /\ ~ret.raised
       /\ Len(ret.value) = 1
       /\ LET c == ret.value[1]
              n == Cardinality(WithSuccessor)
          IN  /\ Len(c) = n + 1
              /\ ClosedPath(c)
              /\ { c[i] : i \in 1..n } = WithSuccessor

\* C7 witness: detect_cycles ran on A -> B -> C -> A and returned the one
\* closed list starting at the first node added.
C7_Witness ==
    /\ ret.op = "detect_cycles" /\ ~ret.raised
    /\ SingleCycle
    /\ Cardinality(WithSuccessor) = 3
    /\ ret.value = << <<"A", "B", "C", "A">> >>

\* a and b, without their closing element, are rotations of each other
SameCycle(a, b) ==
    /\ Len(a) = Len(b)
    /\ \E shift \in 0..(Len(a) - 2) :
          \A i \in 1..(Len(a) - 1) :
              b[i] = a[((i - 1 + shift) % (Len(a) - 1)) + 1]

\* the simple directed cycles of the graph, each as a closed list
SimpleCycles ==
    { c \in UNION { [1..(k + 1) -> NodeSet] : k \in 1..Cardinality(NodeSet) } :
        /\ ClosedPath(c)
        /\ \A i, j \in 1..(Len(c) - 1) : i # j => c[i] # c[j] }

\* C8: when detect_cycles returns, every returned list is a closed directed
\* path, no two returned lists are the same cycle up to rotation, and every
\* simple directed cycle of the graph is among them.
C8_EachCycleOnce ==
    (ret.op = "detect_cycles" /\ ~ret.raised)
    => /\ \A i \in 1..Len(ret.value) : ClosedPath(ret.value[i])
       /\ \A i, j \in 1..Len(ret.value) :
             i # j => ~SameCycle(ret.value[i], ret.value[j])
       /\ \A c \in SimpleCycles :
             \E i \in 1..Len(ret.value) : SameCycle(c, ret.value[i])

\* C9: detect_cycles never raises.
C9_DetectCyclesNeverRaises == ret.op = "detect_cycles" => ~ret.raised

-----------------------------------------------------------------------------
(* Claims about detect_broken_links, checked under SidecarSpec *)

\* C10: detect_broken_links returns the pair (z, node) for every scanned node
\* that has a predecessor z for which no sidecar was scanned, and (node, z) for
\* every such successor z.
C10_DanglingReferencesReported ==
    ret.op = "detect_broken_links"
    => \A node \in scanned, z \in GraphIds \ scanned :
          /\ z \in predecessors[node] => <<z, node>> \in Elements(ret.value)
          /\ z \in successors[node] => <<node, z>> \in Elements(ret.value)

====
